---- MODULE Spec2Model ----
(***************************************************************************)
(* Analytics core of the production-data service: the tabular engine       *)
(* (DataService.filter_production / aggregate_production / join_data) and  *)
(* the decline-curve analysis orchestration.                               *)
(*                                                                         *)
(* The engine operations are pure functions of their arguments; each is an *)
(* operator computed the way the code computes it, and each has its own    *)
(* specification whose initial states draw the arguments from bounded      *)
(* pools and whose action performs the call.                               *)
(***************************************************************************)
EXTENDS Integers, Sequences, FiniteSets, TLC

VARIABLES
    pc,             \* position of the caller: "call" before, "done" after the operation
    data,           \* filter/aggregate: the List[Production] argument
    criteria,       \* filter: the criteria dict, in insertion order
    filtered_data,  \* filter: the returned list
    group_by_fields,        \* aggregate: the list of group-by names
    aggregation_functions,  \* aggregate: the dict column -> function name, in insertion order
    aggregated,             \* aggregate: the returned rows
    price_data,     \* join: the List[OilPrice] argument
    exchange_data,  \* join: the List[ExchangeRate] argument
    joined,         \* join: the returned rows
    request,        \* decline-curve analysis: the DCARequest
    wells,          \* decline-curve analysis: the well codes the well repository holds
    production_history, \* decline-curve analysis: the records the production repository holds for the well
    optimizer,      \* decline-curve analysis: what scipy's curve_fit does on this input
    raised,         \* decline-curve analysis: the exception that reached the caller, "none" if none
    lookups,        \* decline-curve analysis: calls made to the collaborators and to the engine
    use_case,       \* orchestration: the use case whose execute is called
    fetch,          \* orchestration: what each repository's list() does: "list", "none" or "raises"
    returned,       \* orchestration: the value execute returns
    engine_calls,   \* orchestration: calls made to the DataService
    time_actual,    \* forecast: the time_actual_np argument, elapsed days
    fitted,         \* forecast: the parameters curve_fit returns when it converges
    forecast,       \* forecast: the series fit_model_and_generate_forecast returns
    fitting,        \* fitting: the optimizer run of a fitting call
    actual_rates,   \* rmse: the actual_rates argument
    fitted_rates,   \* rmse: the fitted_rates argument
    rmse,           \* rmse: what calculate_rmse returns or raises
    operation,      \* engine objects: the DataService operation called
    inputs_before,  \* engine objects: the contents of the input lists when the call was made
    result_is_input, \* engine objects: whether the returned list is the very list object passed in
    well_store,     \* create well: the rows of the wells table, in insertion order
    well_call,      \* create well: the last execute call, what it did and what came of it
    well_calls_made, \* create well: number of execute calls made
    api_source,     \* external API: the source_name argument of fetch_data
    api_config,     \* external API: the configuration of that source
    transport,      \* external API: what the HTTP exchange does when it is attempted
    api_result,     \* external API: what fetch_data returns or raises
    http_requests,  \* external API: the requests sent
    production_table, \* DuckDB repository: the rows of the production table
    table_before,   \* DuckDB repository: the rows when the last call was made
    repo_call,      \* DuckDB repository: the last call and what came of it
    repo_calls_made, \* DuckDB repository: number of calls made
    connections,    \* DuckDB adapter: per connection made, whether it is closed
    adapter_connection, \* DuckDB adapter: self._connection (0 for None)
    repositories,   \* DuckDB adapter: the connection of each self.*_repository (0 for None)
    adapter_call    \* DuckDB adapter: the last operation and what it returned

vars == <<pc, data, criteria, filtered_data,
          group_by_fields, aggregation_functions, aggregated,
          price_data, exchange_data, joined,
          request, wells, production_history, optimizer, raised, lookups,
          use_case, fetch, returned, engine_calls,
          time_actual, fitted, forecast, fitting,
          actual_rates, fitted_rates, rmse,
          operation, inputs_before, result_is_input,
          well_store, well_call, well_calls_made,
          api_source, api_config, transport, api_result, http_requests,
          production_table, table_before, repo_call, repo_calls_made,
          connections, adapter_connection, repositories, adapter_call>>

filterVars == <<criteria, filtered_data>>
aggregateVars == <<group_by_fields, aggregation_functions, aggregated>>
joinVars == <<price_data, exchange_data, joined>>
dcaVars == <<request, wells, production_history, optimizer, raised, lookups>>

useCaseVars == <<use_case, fetch, returned, engine_calls>>

AllFetched == [production |-> "list", prices |-> "list", rates |-> "list"]

\* The orchestration variables of a run that calls no use case.
UseCaseIdle ==
    /\ use_case = "none"
    /\ fetch = AllFetched
    /\ returned = <<>>
    /\ engine_calls = 0

engineVars == <<time_actual, fitted, forecast, fitting>>

NoParams == [qi |-> 0, Di |-> 0, b |-> 0]

NoForecast == [rate_fitted |-> <<>>, time_forecast |-> <<>>, rate_forecast |-> <<>>,
               parameters |-> <<>>]

NoFit == [model |-> "none", status |-> "idle", nfev |-> 0, max_nfev |-> 0,
          configured |-> FALSE]

\* The engine variables of a run that calls neither the forecast nor a fit.
EngineIdle ==
    /\ time_actual = <<>>
    /\ fitted = NoParams
    /\ forecast = NoForecast
    /\ fitting = NoFit

NoCalls == [well |-> 0, production |-> 0, engine |-> 0]

\* The decline-curve variables of a run that makes no analysis call.
DcaIdle ==
    /\ request = <<>>
    /\ wells = {}
    /\ production_history = <<>>
    /\ optimizer = "converged"
    /\ raised = "none"
    /\ lookups = NoCalls

tabularVars == <<data, filterVars, aggregateVars, joinVars>>

\* The tabular-engine variables of a run that makes no engine call.
TabularIdle ==
    /\ data = <<>>
    /\ criteria = <<>>
    /\ filtered_data = <<>>
    /\ group_by_fields = <<>>
    /\ aggregation_functions = <<>>
    /\ aggregated = <<>>
    /\ price_data = <<>>
    /\ exchange_data = <<>>
    /\ joined = <<>>

\* The variables of the analytics core and of its use cases.
coreVars == <<tabularVars, dcaVars, useCaseVars, engineVars>>

CoreIdle == TabularIdle /\ DcaIdle /\ UseCaseIdle /\ EngineIdle

rmseVars == <<actual_rates, fitted_rates, rmse>>

NoResult == [raised |-> "none", value |-> <<>>]

\* The variables of calculate_rmse in a run that does not call it.
RmseIdle ==
    /\ actual_rates = <<>>
    /\ fitted_rates = <<>>
    /\ rmse = NoResult

objectVars == <<operation, inputs_before, result_is_input>>

\* The object-level variables of a run that looks at results only.
ObjectsIdle ==
    /\ operation = "none"
    /\ inputs_before = <<>>
    /\ result_is_input = FALSE

wellVars == <<well_store, well_call, well_calls_made>>

NoWellCall == [request |-> <<>>, store_before |-> <<>>, found |-> FALSE, adds |-> <<>>,
               created |-> <<>>, response |-> <<>>, raised |-> "none", status_code |-> 0]

\* The create-well variables of a run that makes no create-well call.
WellsIdle ==
    /\ well_store = <<>>
    /\ well_call = NoWellCall
    /\ well_calls_made = 0

apiVars == <<api_source, api_config, transport, api_result, http_requests>>

NoApiResult == [raised |-> "none", status_code |-> 0, value |-> <<>>]

\* The external-API variables of a run that fetches nothing.
ApiIdle ==
    /\ api_source = "none"
    /\ api_config = <<>>
    /\ transport = <<>>
    /\ api_result = NoApiResult
    /\ http_requests = <<>>

tableVars == <<production_table, table_before, repo_call, repo_calls_made>>

NoRepoCall == [op |-> "none", key_values |-> <<>>, entity |-> <<>>, raised |-> "none"]

\* The repository variables of a run that calls no DuckDB repository.
TableIdle ==
    /\ production_table = {}
    /\ table_before = {}
    /\ repo_call = NoRepoCall
    /\ repo_calls_made = 0

adapterVars == <<connections, adapter_connection, repositories, adapter_call>>

\* The attributes self.*_repository of the adapter.
RepositoryNames == {"well", "field", "production", "oil_price", "exchange_rate"}

NoAdapterCall == [op |-> "none", name |-> "none", connection |-> 0]

\* The adapter variables of a run that builds no DuckDBAdapter.
AdapterIdle ==
    /\ connections = <<>>
    /\ adapter_connection = 0
    /\ repositories = [name \in RepositoryNames |-> 0]
    /\ adapter_call = NoAdapterCall

\* The variables of the components outside the analytics core.
outerVars == <<rmseVars, objectVars, wellVars, apiVars, tableVars, adapterVars>>

\* Every component outside the analytics core is idle, but the active ones.
OuterIdle(active) ==
    /\ IF "rmse" \in active THEN TRUE ELSE RmseIdle
    /\ IF "objects" \in active THEN TRUE ELSE ObjectsIdle
    /\ IF "wells" \in active THEN TRUE ELSE WellsIdle
    /\ IF "api" \in active THEN TRUE ELSE ApiIdle
    /\ IF "table" \in active THEN TRUE ELSE TableIdle
    /\ IF "adapter" \in active THEN TRUE ELSE AdapterIdle

\* No component outside the analytics core changes, but the active ones.
OuterUnchanged(active) ==
    /\ IF "rmse" \in active THEN TRUE ELSE UNCHANGED rmseVars
    /\ IF "objects" \in active THEN TRUE ELSE UNCHANGED objectVars
    /\ IF "wells" \in active THEN TRUE ELSE UNCHANGED wellVars
    /\ IF "api" \in active THEN TRUE ELSE UNCHANGED apiVars
    /\ IF "table" \in active THEN TRUE ELSE UNCHANGED tableVars
    /\ IF "adapter" \in active THEN TRUE ELSE UNCHANGED adapterVars

----------------------------------------------------------------------------
(* Bounds of the model *)

MaxData == 2        \* longest record list passed to filter_production
MaxCriteria == 2    \* most entries of a criteria dict
MaxAggregations == 2    \* most entries of an aggregation_functions dict
MaxRight == 2       \* longest price list and longest exchange-rate list passed to join_data
MaxHistory == 4     \* most production records of the analysed well
MaxFetched == 1     \* longest list a repository returns to a use case
MaxForecast == 3    \* largest forecast_duration
MaxSeries == 2      \* longest series passed to calculate_rmse
MaxWellCalls == 3   \* most CreateWellUseCase.execute calls of a run
MaxRepoCalls == 2   \* most calls on the DuckDB production repository in a run
MaxConnections == 4 \* most connections a DuckDBAdapter opens in a run

----------------------------------------------------------------------------
(* Python values: None, numbers, strings (sequences of characters), dates. *)
(* A date is held as the number yyyymmdd, which orders as dates do.        *)

None == [t |-> "none", n |-> 0, s |-> <<>>]
Num(k) == [t |-> "num", n |-> k, s |-> <<>>]
Str(chars) == [t |-> "str", n |-> 0, s |-> chars]
Date(ymd) == [t |-> "date", n |-> ymd, s |-> <<>>]

\* The characters used, in code-point order.
CharOrder == <<"-", "0", "1", "2", "3", "4", "5", "6", "7", "8", "9", "W", "x">>

Ord(c) == CHOOSE i \in 1..Len(CharOrder) : CharOrder[i] = c

Digits == {"0", "1", "2", "3", "4", "5", "6", "7", "8", "9"}

DigitVal(c) == Ord(c) - 2

\* str < str in Python: lexicographic by code point, a proper prefix is smaller.
RECURSIVE StrLess(_, _)
StrLess(a, b) ==
    IF b = <<>> THEN FALSE
    ELSE IF a = <<>> THEN TRUE
    ELSE IF Ord(Head(a)) < Ord(Head(b)) THEN TRUE
    ELSE IF Ord(Head(a)) > Ord(Head(b)) THEN FALSE
    ELSE StrLess(Tail(a), Tail(b))

PyEq(a, b) == a.t = b.t /\ a.n = b.n /\ a.s = b.s

\* Ordering comparisons raise TypeError across types.
Comparable(a, b) == a.t = b.t /\ a.t \in {"num", "str", "date"}

PyLt(a, b) == IF a.t = "str" THEN StrLess(a.s, b.s) ELSE a.n < b.n

DaysInMonth(y, m) ==
    IF m \in {4, 6, 9, 11} THEN 30
    ELSE IF m = 2 THEN (IF (y % 4 = 0 /\ y % 100 # 0) \/ y % 400 = 0 THEN 29 ELSE 28)
    ELSE 31

\* date.fromisoformat on "YYYY-MM-DD"; "error" stands for ValueError.
FromIsoFormat(chars) ==
    IF /\ Len(chars) = 10
       /\ chars[5] = "-" /\ chars[8] = "-"
       /\ \A i \in {1, 2, 3, 4, 6, 7, 9, 10} : chars[i] \in Digits
    THEN LET y == DigitVal(chars[1]) * 1000 + DigitVal(chars[2]) * 100
                  + DigitVal(chars[3]) * 10 + DigitVal(chars[4])
             m == DigitVal(chars[6]) * 10 + DigitVal(chars[7])
             d == DigitVal(chars[9]) * 10 + DigitVal(chars[10])
         IN IF y >= 1 /\ m \in 1..12 /\ d >= 1 /\ d <= DaysInMonth(y, m)
            THEN [ok |-> TRUE, value |-> Date(y * 10000 + m * 100 + d)]
            ELSE [ok |-> FALSE, value |-> None]
    ELSE [ok |-> FALSE, value |-> None]

----------------------------------------------------------------------------
(* Production entity *)

ModelFields == {"reference_date", "oil_prod", "gas_prod", "water_prod", "well_code"}

Production(d, oil, gas, water, well) ==
    [reference_date |-> d, oil_prod |-> oil, gas_prod |-> gas,
     water_prod |-> water, well_code |-> well]

\* getattr(item, attr_name, None)
GetAttr(item, attr_name) ==
    IF attr_name \in DOMAIN item THEN item[attr_name] ELSE None

----------------------------------------------------------------------------
(* DataService.filter_production *)

\* key.split('__'): a key is a sequence of tokens, "__" being the separator;
\* each part is the word between two separators, "" when there is none.
RECURSIVE SplitKey(_, _, _)
SplitKey(key, cur, acc) ==
    IF key = <<>> THEN Append(acc, cur)
    ELSE IF Head(key) = "__" THEN SplitKey(Tail(key), "", Append(acc, cur))
    ELSE SplitKey(Tail(key), Head(key), acc)

Split(key) == SplitKey(key, "", <<>>)

\* The match with a None criterion value compared like any other value.
MatchNoneAsValue(item_value, operator, actual_criterion_value) ==
    IF operator = "eq" THEN PyEq(item_value, actual_criterion_value)
    ELSE IF operator = "ne" THEN ~PyEq(item_value, actual_criterion_value)
    ELSE IF operator = "gt" THEN actual_criterion_value.n < item_value.n
    ELSE IF operator = "ge" THEN actual_criterion_value.n <= item_value.n
    ELSE IF operator = "lt" THEN item_value.n < actual_criterion_value.n
    ELSE IF operator = "le" THEN item_value.n <= actual_criterion_value.n
    ELSE FALSE

\* The match with an operator outside the six taken as eq.
MatchUnknownAsEq(item_value, operator, actual_criterion_value) ==
    IF actual_criterion_value = None
    THEN IF operator = "ne" THEN item_value # None
         ELSE IF operator \in {"gt", "ge", "lt", "le"} THEN FALSE
         ELSE item_value = None
    ELSE IF item_value = None
    THEN operator = "ne"
    ELSE IF operator = "ne" THEN ~PyEq(item_value, actual_criterion_value)
    ELSE IF operator = "gt"
         THEN Comparable(item_value, actual_criterion_value)
              /\ PyLt(actual_criterion_value, item_value)
    ELSE IF operator = "ge"
         THEN Comparable(item_value, actual_criterion_value)
              /\ ~PyLt(item_value, actual_criterion_value)
    ELSE IF operator = "lt"
         THEN Comparable(item_value, actual_criterion_value)
              /\ PyLt(item_value, actual_criterion_value)
    ELSE IF operator = "le"
         THEN Comparable(item_value, actual_criterion_value)
              /\ ~PyLt(actual_criterion_value, item_value)
    ELSE PyEq(item_value, actual_criterion_value)

\* Lines 45-91: the match of one item against one criterion value.
Match(item_value, operator, actual_criterion_value) ==
    IF actual_criterion_value = None
    THEN IF operator = "eq" THEN item_value = None
         ELSE IF operator = "ne" THEN item_value # None
         ELSE FALSE
    ELSE IF item_value = None
    THEN operator = "ne"
    ELSE IF operator = "eq" THEN PyEq(item_value, actual_criterion_value)
    ELSE IF operator = "ne" THEN ~PyEq(item_value, actual_criterion_value)
    ELSE IF operator = "gt"
         THEN Comparable(item_value, actual_criterion_value)
              /\ PyLt(actual_criterion_value, item_value)
    ELSE IF operator = "ge"
         THEN Comparable(item_value, actual_criterion_value)
              /\ ~PyLt(item_value, actual_criterion_value)
    ELSE IF operator = "lt"
         THEN Comparable(item_value, actual_criterion_value)
              /\ PyLt(item_value, actual_criterion_value)
    ELSE IF operator = "le"
         THEN Comparable(item_value, actual_criterion_value)
              /\ ~PyLt(actual_criterion_value, item_value)
    ELSE FALSE

\* The body with the unparsed string compared when the parse fails.
ItemKeptRawOnParseFailure(item, attr_name, operator, criterion_val) ==
    LET item_value == GetAttr(item, attr_name)
    IN IF attr_name = "reference_date" /\ criterion_val.t = "str"
       THEN LET parsed == FromIsoFormat(criterion_val.s)
            IN Match(item_value, operator,
                     IF parsed.ok THEN parsed.value ELSE criterion_val)
       ELSE Match(item_value, operator, criterion_val)

\* Lines 33-94: the body of the inner loop for one item; TRUE when the item is
\* appended to current_run_items.
ItemKept(item, attr_name, operator, criterion_val) ==
    LET item_value == GetAttr(item, attr_name)
    IN IF attr_name = "reference_date" /\ criterion_val.t = "str"
       THEN LET parsed == FromIsoFormat(criterion_val.s)
            IN IF parsed.ok THEN Match(item_value, operator, parsed.value)
               ELSE FALSE
       ELSE Match(item_value, operator, criterion_val)

\* The pass with the first item of the list left out of the iteration.
RECURSIVE CurrentRunItemsFrom(_, _, _, _)
CurrentRunItemsFrom(items, attr_name, operator, criterion_val) ==
    IF items = <<>> THEN <<>>
    ELSE LET rest == CurrentRunItemsFrom(Tail(items), attr_name, operator, criterion_val)
         IN IF ItemKept(Head(items), attr_name, operator, criterion_val)
            THEN <<Head(items)>> \o rest
            ELSE rest

CurrentRunItemsSkipFirst(items, attr_name, operator, criterion_val) ==
    IF items = <<>> THEN <<>>
    ELSE CurrentRunItemsFrom(Tail(items), attr_name, operator, criterion_val)

\* Lines 31-94: one pass of the inner loop over filtered_data.
RECURSIVE CurrentRunItems(_, _, _, _)
CurrentRunItems(items, attr_name, operator, criterion_val) ==
    IF items = <<>> THEN <<>>
    ELSE LET rest == CurrentRunItems(Tail(items), attr_name, operator, criterion_val)
         IN IF ItemKept(Head(items), attr_name, operator, criterion_val)
            THEN <<Head(items)>> \o rest
            ELSE rest

\* The loop with a pass that keeps nothing left without effect.
RECURSIVE FilterLoopKeepOnEmpty(_, _, _)
FilterLoopKeepOnEmpty(filtered, crit, i) ==
    IF i > Len(crit) THEN filtered
    ELSE LET parts == Split(crit[i].key)
             attr_name == parts[1]
             operator == IF Len(parts) > 1 THEN parts[2] ELSE "eq"
         IN IF attr_name \notin ModelFields
            THEN FilterLoopKeepOnEmpty(filtered, crit, i + 1)
            ELSE LET current_run_items ==
                         CurrentRunItems(filtered, attr_name, operator, crit[i].val)
                 IN IF current_run_items = <<>>
                    THEN FilterLoopKeepOnEmpty(filtered, crit, i + 1)
                    ELSE FilterLoopKeepOnEmpty(current_run_items, crit, i + 1)

\* The loop with a criterion on an unknown field matching no record.
RECURSIVE FilterLoopRejectUnknown(_, _, _)
FilterLoopRejectUnknown(filtered, crit, i) ==
    IF i > Len(crit) THEN filtered
    ELSE LET parts == Split(crit[i].key)
             attr_name == parts[1]
             operator == IF Len(parts) > 1 THEN parts[2] ELSE "eq"
         IN IF attr_name \notin ModelFields
            THEN <<>>
            ELSE LET current_run_items ==
                         CurrentRunItems(filtered, attr_name, operator, crit[i].val)
                 IN IF current_run_items = <<>>
                    THEN current_run_items
                    ELSE FilterLoopRejectUnknown(current_run_items, crit, i + 1)

\* The loop left at a criterion on an unknown field.
RECURSIVE FilterLoopStopOnUnknown(_, _, _)
FilterLoopStopOnUnknown(filtered, crit, i) ==
    IF i > Len(crit) THEN filtered
    ELSE LET parts == Split(crit[i].key)
             attr_name == parts[1]
             operator == IF Len(parts) > 1 THEN parts[2] ELSE "eq"
         IN IF attr_name \notin ModelFields
            THEN filtered
            ELSE LET current_run_items ==
                         CurrentRunItems(filtered, attr_name, operator, crit[i].val)
                 IN IF current_run_items = <<>>
                    THEN current_run_items
                    ELSE FilterLoopStopOnUnknown(current_run_items, crit, i + 1)

\* Lines 22-98: the loop over criteria.items(), from entry i on.
RECURSIVE FilterLoop(_, _, _)
FilterLoop(filtered, crit, i) ==
    IF i > Len(crit) THEN filtered
    ELSE LET parts == Split(crit[i].key)
             attr_name == parts[1]
             operator == IF Len(parts) > 1 THEN parts[2] ELSE "eq"
         IN IF attr_name \notin ModelFields
            THEN FilterLoop(filtered, crit, i + 1)
            ELSE LET current_run_items ==
                         CurrentRunItems(filtered, attr_name, operator, crit[i].val)
                 IN IF current_run_items = <<>>
                    THEN current_run_items
                    ELSE FilterLoop(current_run_items, crit, i + 1)

filter_production(d, crit) ==
    IF crit = <<>> THEN d ELSE FilterLoop(d, crit, 1)

----------------------------------------------------------------------------
(* Arguments of the filter calls *)

D1 == Date(20230101)
D2 == Date(20230102)
W1 == Str(<<"W", "1">>)
W2 == Str(<<"W", "2">>)

ProductionPool ==
    { Production(D1, Num(10), Num(5), Num(0), W1),
      Production(D2, Num(20), Num(5), Num(0), W1),
      Production(D1, None,    Num(5), Num(0), W2),
      Production(D2, Num(10), Num(5), Num(0), W2),
      Production(D1, Num(20), Num(5), Num(0), W2),
      Production(D2, Num(10), Num(5), Num(0), None) }

IsoD2 == Str(<<"2", "0", "2", "3", "-", "0", "1", "-", "0", "2">>)
BadMonth == Str(<<"2", "0", "2", "3", "-", "1", "3", "-", "0", "1">>)

Criterion(k, v) == [key |-> k, val |-> v]

CriteriaPool ==
    { Criterion(<<"oil_prod">>, Num(10)),
      Criterion(<<"oil_prod", "__", "gt">>, Num(10)),
      Criterion(<<"oil_prod", "__", "ne">>, Num(20)),
      Criterion(<<"oil_prod", "__", "eq">>, None),
      Criterion(<<"oil_prod", "__", "le">>, None),
      Criterion(<<"oil_prod", "__", "lt">>, W1),
      Criterion(<<"well_code">>, W1),
      Criterion(<<"well_code", "__", "ne">>, None),
      Criterion(<<"well_code", "__", "ge">>, W2),
      Criterion(<<"reference_date", "__", "ge">>, IsoD2),
      Criterion(<<"reference_date", "__", "lt">>, D2),
      Criterion(<<"reference_date", "__", "ne">>, BadMonth),
      Criterion(<<"reference_date">>, W1),
      Criterion(<<"oil_prod", "__", "like">>, Num(10)),
      Criterion(<<"oil_prod", "__">>, Num(10)),
      Criterion(<<"field_code">>, W1),
      Criterion(<<"region", "__", "gt">>, Num(10)) }

SeqsUpTo(S, n) == UNION { [1..k -> S] : k \in 0..n }

\* A dict holds each key once.
DistinctKeys(crit) ==
    \A i, j \in 1..Len(crit) : i # j => crit[i].key # crit[j].key

CriteriaDicts == { c \in SeqsUpTo(CriteriaPool, MaxCriteria) : DistinctKeys(c) }

----------------------------------------------------------------------------
(* Specification of the filter calls *)

InitFilter ==
    /\ pc = "call"
    /\ OuterIdle({})
    /\ data \in SeqsUpTo(ProductionPool, MaxData)
    /\ criteria \in CriteriaDicts
    /\ filtered_data = <<>>
    /\ group_by_fields = <<>>
    /\ aggregation_functions = <<>>
    /\ aggregated = <<>>
    /\ price_data = <<>>
    /\ exchange_data = <<>>
    /\ joined = <<>>
    /\ DcaIdle
    /\ EngineIdle
    /\ UseCaseIdle

FilterProduction ==
    /\ pc = "call"
    /\ OuterUnchanged({})
    /\ filtered_data' = filter_production(data, criteria)
    /\ pc' = "done"
    /\ UNCHANGED engineVars
    /\ UNCHANGED <<data, criteria, aggregateVars, joinVars, dcaVars, useCaseVars>>

NextFilter == FilterProduction

SpecFilter == InitFilter /\ [][NextFilter]_vars

----------------------------------------------------------------------------
(* Properties of filter_production *)

FilterOperators == {"eq", "ne", "gt", "ge", "lt", "le"}
RangeOperators == {"gt", "ge", "lt", "le"}

\* A key "field" or "field__operator" on a known field with a known operator.
WellFormedKey(key) ==
    \/ Len(key) = 1 /\ key[1] \in ModelFields
    \/ Len(key) = 3 /\ key[1] \in ModelFields /\ key[2] = "__"
       /\ key[3] \in FilterOperators

KeyField(key) == key[1]
KeyOperator(key) == IF Len(key) = 3 THEN key[3] ELSE "eq"

\* The record satisfies the criterion.
Satisfies(item, c) == ItemKept(item, KeyField(c.key), KeyOperator(c.key), c.val)

SatisfiesAll(item, crit) == \A i \in 1..Len(crit) : Satisfies(item, crit[i])

\* C1: with every key naming a known field and an operator among eq, ne, gt,
\* ge, lt, le (eq by default), the result is the subsequence of data, in the
\* original order and with duplicates kept, of the records satisfying every
\* criterion.
C1_FilterIsConjunctiveSubsequence ==
    (pc = "done" /\ \A i \in 1..Len(criteria) : WellFormedKey(criteria[i].key))
        => filtered_data = SelectSeq(data, LAMBDA item : SatisfiesAll(item, criteria))

\* Two criteria; the first rejects one of two records and the second keeps
\* the other.
C1_Witness ==
    /\ pc = "done"
    /\ Len(criteria) = 2
    /\ \A i \in 1..2 : WellFormedKey(criteria[i].key)
    /\ Len(data) = 2
    /\ Len(filtered_data) = 1
    /\ ~Satisfies(data[1], criteria[1])
    /\ Satisfies(data[2], criteria[1])

\* C2: filtering the result again with the same criteria gives the result.
C2_FilterIdempotent ==
    pc = "done" => filter_production(filtered_data, criteria) = filtered_data

\* A call with two criteria, one of them on an unknown field or with an
\* unknown operator, that kept one record of two.
C2_Witness ==
    /\ pc = "done"
    /\ Len(data) = 2
    /\ Len(filtered_data) = 1
    /\ Len(criteria) = 2
    /\ \E i \in 1..2 : ~WellFormedKey(criteria[i].key)

Positions(seq, P(_)) == { i \in 1..Len(seq) : P(seq[i]) }

\* C10: with a single criterion on a known field: when the value is None the
\* records kept are those whose field is None under eq, those whose field is
\* not None under ne, and none under gt, ge, lt, le; when the value is not
\* None, a record whose field is None is kept only under ne.
C10_NoneHandling ==
    (pc = "done" /\ Len(criteria) = 1 /\ WellFormedKey(criteria[1].key))
        => LET f == KeyField(criteria[1].key)
               op == KeyOperator(criteria[1].key)
           IN /\ (criteria[1].val = None /\ op = "eq")
                    => filtered_data = SelectSeq(data, LAMBDA r : r[f] = None)
              /\ (criteria[1].val = None /\ op = "ne")
                    => filtered_data = SelectSeq(data, LAMBDA r : r[f] # None)
              /\ (criteria[1].val = None /\ op \in RangeOperators)
                    => filtered_data = <<>>
              /\ (criteria[1].val # None /\ op # "ne")
                    => \A i \in 1..Len(filtered_data) : filtered_data[i][f] # None

\* A range operator against None on data holding a None field and a set field.
C10_Witness ==
    /\ pc = "done"
    /\ Len(criteria) = 1
    /\ WellFormedKey(criteria[1].key)
    /\ criteria[1].val = None
    /\ KeyOperator(criteria[1].key) \in RangeOperators
    /\ \E i, j \in 1..Len(data) :
          /\ data[i][KeyField(criteria[1].key)] = None
          /\ data[j][KeyField(criteria[1].key)] # None

\* A key whose field part is not a field of Production.
UnknownFieldKey(key) == key = <<>> \/ key[1] = "__" \/ key[1] \notin ModelFields

Without(seq, i) == [k \in 1..(Len(seq) - 1) |-> IF k < i THEN seq[k] ELSE seq[k + 1]]

\* C11: a criterion on an unknown field is skipped: the result is that of the
\* criteria without it, and criteria made only of unknown fields return all
\* records in their original order.
C11_UnknownFieldSkipped ==
    pc = "done" =>
        /\ \A i \in 1..Len(criteria) :
              UnknownFieldKey(criteria[i].key)
                  => filtered_data = filter_production(data, Without(criteria, i))
        /\ (\A i \in 1..Len(criteria) : UnknownFieldKey(criteria[i].key))
              => filtered_data = data

\* A criterion on an unknown field before one that rejects one record of two.
C11_Witness ==
    /\ pc = "done"
    /\ Len(criteria) = 2
    /\ UnknownFieldKey(criteria[1].key)
    /\ ~UnknownFieldKey(criteria[2].key)
    /\ Len(data) = 2
    /\ Len(filtered_data) = 1

\* Strings that are no ISO-8601 date.
InvalidIsoStrings == { BadMonth, W1 }

\* C12: a criterion on reference_date whose value is a string that is no
\* valid ISO date gives the empty list, whatever the operator and the input.
C12_BadDateMatchesNothing ==
    (pc = "done"
        /\ \E i \in 1..Len(criteria) :
              /\ ~UnknownFieldKey(criteria[i].key)
              /\ KeyField(criteria[i].key) = "reference_date"
              /\ criteria[i].val \in InvalidIsoStrings)
        => filtered_data = <<>>

\* The operator ne with an unparseable string, after a criterion that keeps
\* both records.
C12_Witness ==
    /\ pc = "done"
    /\ Len(data) = 2
    /\ Len(criteria) = 2
    /\ WellFormedKey(criteria[1].key)
    /\ \A k \in 1..2 : Satisfies(data[k], criteria[1])
    /\ criteria[2] = Criterion(<<"reference_date", "__", "ne">>, BadMonth)
    /\ filtered_data = <<>>

\* The entries of crit with those at positions i and i + 1 exchanged.
Exchanged(crit, i) ==
    [k \in 1..Len(crit) |->
        IF k = i THEN crit[i + 1] ELSE IF k = i + 1 THEN crit[i] ELSE crit[k]]

\* One pass of the loop over the items, for the criterion c.
Pass(items, c) ==
    LET parts == Split(c.key)
    IN CurrentRunItems(items, parts[1],
                       IF Len(parts) > 1 THEN parts[2] ELSE "eq", c.val)

\* C26: the result does not depend on the insertion order of the criteria:
\* the same key-value pairs held in another order give the same records in
\* the same order, also when the loop is left on an empty list at a different
\* criterion. Every order is reached by exchanges of neighbouring entries,
\* and the calls range over every order of every set of entries.
C26_InsertionOrderIrrelevant ==
    pc = "done" =>
        \A i \in 1..(Len(criteria) - 1) :
            filter_production(data, Exchanged(criteria, i)) = filtered_data

\* Two criteria on known fields: the first rejects every record, so the loop
\* is left after it; in the other order the second keeps a record and the
\* loop is left one criterion later.
C26_Witness ==
    /\ pc = "done"
    /\ Len(criteria) = 2
    /\ \A i \in 1..2 : ~UnknownFieldKey(criteria[i].key)
    /\ data # <<>>
    /\ Pass(data, criteria[1]) = <<>>
    /\ Pass(data, criteria[2]) # <<>>
    /\ filtered_data = <<>>

\* A key on a known field whose operator suffix is none of the six.
UnknownOperatorKey(key) ==
    LET parts == Split(key)
    IN /\ parts[1] \in ModelFields
       /\ Len(parts) > 1
       /\ parts[2] \notin FilterOperators

\* C27: a criterion on a known field whose operator suffix is none of eq, ne,
\* gt, ge, lt, le matches no record, whatever its value and the records: the
\* call returns the empty list; the criterion is neither read as eq nor
\* skipped.
C27_UnknownOperatorMatchesNothing ==
    (pc = "done" /\ \E i \in 1..Len(criteria) : UnknownOperatorKey(criteria[i].key))
        => filtered_data = <<>>

\* The only criterion has an unknown operator and a value equal to the field
\* of a record, which eq would keep.
C27_Witness ==
    /\ pc = "done"
    /\ Len(criteria) = 1
    /\ UnknownOperatorKey(criteria[1].key)
    /\ \E i \in 1..Len(data) :
          PyEq(GetAttr(data[i], Split(criteria[1].key)[1]), criteria[1].val)
    /\ filtered_data = <<>>

----------------------------------------------------------------------------
(* DataService.aggregate_production *)

\* df.columns of pl.DataFrame([item.model_dump() ...]): the model's fields in
\* declaration order.
DfColumns == <<"reference_date", "oil_prod", "gas_prod", "water_prod", "well_code">>

ColumnSet == { DfColumns[i] : i \in 1..Len(DfColumns) }

\* item.model_dump(): the dict of the entity's fields.
ModelDump(item) == [c \in ColumnSet |-> item[c]]

\* Methods of a polars expression, by what calling them with no argument gives:
\* an aggregation (one value per group), an element-wise expression (one value
\* per row), or a TypeError because an argument is required.
ReducingMethods == {"sum", "count", "max", "last"}
ElementwiseMethods == {"abs", "reverse"}
ArgumentMethods == {"alias"}

\* hasattr(pl.col(col_name), func_name)
HasAttr(func_name) ==
    func_name \in ReducingMethods \cup ElementwiseMethods \cup ArgumentMethods

\* A cell of a result row: a scalar, or the list an element-wise expression
\* gives inside a group.
Scalar(v) == [list |-> FALSE, items |-> <<v>>]
ListCell(vs) == [list |-> TRUE, items |-> vs]

\* A column name of the result: a group-by column <<name>>, or the alias
\* f"{col_name}_{func_name}" held as <<col_name, func_name>>.
Alias(col_name, func_name) == <<col_name, func_name>>

\* Line 139
ValidGroupByFields(fields) == SelectSeq(fields, LAMBDA f : f \in ColumnSet)

\* The loop left at the first entry that gives no expression.
RECURSIVE AggExprsBreakOnInvalid(_)
AggExprsBreakOnInvalid(aggs) ==
    IF aggs = <<>> THEN <<>>
    ELSE LET e == Head(aggs)
         IN IF e.col \notin ColumnSet \/ ~HasAttr(e.func) \/ e.func \in ArgumentMethods
            THEN <<>>
            ELSE <<e>> \o AggExprsBreakOnInvalid(Tail(aggs))

\* Lines 153-173: the entries that give an aggregation expression.
RECURSIVE AggExprs(_)
AggExprs(aggs) ==
    IF aggs = <<>> THEN <<>>
    ELSE LET e == Head(aggs)
             rest == AggExprs(Tail(aggs))
         IN IF e.col \notin ColumnSet THEN rest
            ELSE IF ~HasAttr(e.func) THEN rest
            ELSE IF e.func \in ArgumentMethods THEN rest
            ELSE <<e>> \o rest

RECURSIVE SumOf(_)
SumOf(vs) == IF vs = <<>> THEN 0 ELSE Head(vs).n + SumOf(Tail(vs))

RECURSIVE MaxOf(_)
MaxOf(vs) ==
    IF Len(vs) = 1 THEN Head(vs)
    ELSE LET m == MaxOf(Tail(vs))
         IN IF PyLt(Head(vs), m) THEN m ELSE Head(vs)

RECURSIVE Reversed(_)
Reversed(vs) == IF vs = <<>> THEN <<>> ELSE Append(Reversed(Tail(vs)), Head(vs))

\* An aggregating method over the values of a column (no nulls, numbers).
Reduce(func_name, vs) ==
    IF func_name = "sum" THEN Num(SumOf(vs))
    ELSE IF func_name = "count" THEN Num(Len(vs))
    ELSE IF func_name = "max" THEN MaxOf(vs)
    ELSE vs[Len(vs)]

\* An element-wise method over the values of a column.
Elementwise(func_name, vs) ==
    IF func_name = "abs"
    THEN [i \in 1..Len(vs) |-> Num(IF vs[i].n < 0 THEN 0 - vs[i].n ELSE vs[i].n)]
    ELSE Reversed(vs)

\* The values an expression gives over a frame: one for an aggregation, one
\* per row otherwise.
ExprValues(e, rows) ==
    LET vs == [i \in 1..Len(rows) |-> rows[i][e.col]]
    IN IF e.func \in ReducingMethods THEN <<Reduce(e.func, vs)>>
       ELSE Elementwise(e.func, vs)

KeyOf(row, fields) == [i \in 1..Len(fields) |-> row[fields[i]]]

\* The distinct group keys in first-seen order (maintain_order=True).
RECURSIVE GroupKeys(_, _, _)
GroupKeys(rows, fields, seen) ==
    IF rows = <<>> THEN seen
    ELSE LET k == KeyOf(Head(rows), fields)
         IN IF \E i \in 1..Len(seen) : seen[i] = k
            THEN GroupKeys(Tail(rows), fields, seen)
            ELSE GroupKeys(Tail(rows), fields, Append(seen, k))

GroupRows(rows, fields, k) == SelectSeq(rows, LAMBDA r : KeyOf(r, fields) = k)

FieldNames(fields) == { <<fields[i]>> : i \in 1..Len(fields) }

AliasNames(exprs) == { Alias(exprs[i].col, exprs[i].func) : i \in 1..Len(exprs) }

ExprOf(exprs, name) ==
    exprs[CHOOSE i \in 1..Len(exprs) : Alias(exprs[i].col, exprs[i].func) = name]

\* Line 185: df.group_by(fields, maintain_order=True).agg(exprs).to_dicts()
GroupByAgg(rows, fields, exprs) ==
    LET keys == GroupKeys(rows, fields, <<>>)
    IN [g \in 1..Len(keys) |->
          LET members == GroupRows(rows, fields, keys[g])
          IN [name \in FieldNames(fields) \cup AliasNames(exprs) |->
                IF name \in FieldNames(fields)
                THEN Scalar(members[1][name[1]])
                ELSE LET e == ExprOf(exprs, name)
                         out == ExprValues(e, members)
                     IN IF e.func \in ReducingMethods
                        THEN Scalar(out[1])
                        ELSE ListCell(out)]]

Longest(exprs, rows) ==
    IF \E i \in 1..Len(exprs) : exprs[i].func \notin ReducingMethods
    THEN Len(rows) ELSE 1

\* Line 189: df.select(exprs).to_dicts(); an aggregation's single value is
\* broadcast to the length of the longest column.
SelectExprs(rows, exprs) ==
    [r \in 1..Longest(exprs, rows) |->
        [name \in AliasNames(exprs) |->
            LET e == ExprOf(exprs, name)
                out == ExprValues(e, rows)
            IN Scalar(IF Len(out) = 1 THEN out[1] ELSE out[r])]]

Orderings(seq) ==
    { p \in [1..Len(seq) -> { seq[i] : i \in 1..Len(seq) }] :
        \A i, j \in 1..Len(seq) : i # j => p[i] # p[j] }

\* The selection without unique(): one row per record.
SelectAll(rows, fields) ==
    { [g \in 1..Len(rows) |->
          [name \in FieldNames(fields) |-> Scalar(rows[g][name[1]])]] }

\* Line 179: df.select(fields).unique().to_dicts(); unique() keeps no order
\* (maintain_order defaults to False), so every order of the distinct rows is
\* a possible result.
SelectUnique(rows, fields) ==
    LET keys == GroupKeys(rows, fields, <<>>)
        dicts == [g \in 1..Len(keys) |->
                    [name \in FieldNames(fields) |->
                        Scalar(keys[g][CHOOSE i \in 1..Len(fields) : fields[i] = name[1]])]]
    IN Orderings(dicts)

\* The call without the return on group-by names none of which is a column.
aggregate_production_no_abort(d, fields, aggs) ==
    IF d = <<>> THEN { <<>> }
    ELSE LET rows == [i \in 1..Len(d) |-> ModelDump(d[i])]
             valid_group_by_fields == ValidGroupByFields(fields)
             agg_exprs == AggExprs(aggs)
         IN IF agg_exprs = <<>>
            THEN (IF valid_group_by_fields # <<>>
                  THEN SelectUnique(rows, valid_group_by_fields)
                  ELSE { <<>> })
            ELSE IF valid_group_by_fields # <<>>
            THEN { GroupByAgg(rows, valid_group_by_fields, agg_exprs) }
            ELSE { SelectExprs(rows, agg_exprs) }

\* The results a call can return.
aggregate_production(d, fields, aggs) ==
    IF d = <<>> THEN { <<>> }
    ELSE LET rows == [i \in 1..Len(d) |-> ModelDump(d[i])]
             valid_group_by_fields == ValidGroupByFields(fields)
             agg_exprs == AggExprs(aggs)
         IN IF valid_group_by_fields = <<>> /\ fields # <<>> THEN { <<>> }
            ELSE IF agg_exprs = <<>>
            THEN (IF valid_group_by_fields # <<>>
                  THEN SelectUnique(rows, valid_group_by_fields)
                  ELSE { <<>> })
            ELSE IF valid_group_by_fields # <<>>
            THEN { GroupByAgg(rows, valid_group_by_fields, agg_exprs) }
            ELSE { SelectExprs(rows, agg_exprs) }

----------------------------------------------------------------------------
(* Arguments of the aggregate calls *)

AggregatePool ==
    { Production(D1, Num(10), Num(5), Num(0), W1),
      Production(D1, Num(20), Num(5), Num(0), W2),
      Production(D2, Num(20), Num(7), Num(0), W1),
      Production(D2, Num(30), Num(5), Num(0), W1) }

GroupByPool ==
    { <<>>, <<"well_code">>, <<"reference_date">>, <<"well_code", "reference_date">>,
      <<"region">>, <<"region", "well_code">>, <<"region", "area">> }

AggEntry(c, f) == [col |-> c, func |-> f]

AggregationPool ==
    { AggEntry("oil_prod", f) : f \in {"sum", "count", "max", "last", "abs",
                                        "reverse", "alias", "total"} }
    \cup { AggEntry("gas_prod", f) : f \in {"sum", "abs", "total"} }
    \cup { AggEntry("price", "sum") }

DistinctColumns(aggs) ==
    \A i, j \in 1..Len(aggs) : i # j => aggs[i].col # aggs[j].col

AggregationDicts ==
    { a \in SeqsUpTo(AggregationPool, MaxAggregations) : DistinctColumns(a) }

----------------------------------------------------------------------------
(* Specification of the aggregate calls *)

InitAggregate ==
    /\ pc = "call"
    /\ OuterIdle({})
    /\ data \in SeqsUpTo(AggregatePool, MaxData)
    /\ group_by_fields \in GroupByPool
    /\ aggregation_functions \in AggregationDicts
    /\ aggregated = <<>>
    /\ criteria = <<>>
    /\ filtered_data = <<>>
    /\ price_data = <<>>
    /\ exchange_data = <<>>
    /\ joined = <<>>
    /\ DcaIdle
    /\ EngineIdle
    /\ UseCaseIdle

AggregateProduction ==
    /\ pc = "call"
    /\ OuterUnchanged({})
    /\ aggregated' \in aggregate_production(data, group_by_fields, aggregation_functions)
    /\ pc' = "done"
    /\ UNCHANGED engineVars
    /\ UNCHANGED <<data, group_by_fields, aggregation_functions, filterVars, joinVars, dcaVars, useCaseVars>>

NextAggregate == AggregateProduction

SpecAggregate == InitAggregate /\ [][NextAggregate]_vars

----------------------------------------------------------------------------
(* Properties of aggregate_production *)

\* The value of an aggregating function over the records of one group.
FunctionApplied(e, members) ==
    Scalar(Reduce(e.func, [i \in 1..Len(members) |-> members[i][e.col]]))

DistinctKeyCount(d, fields) ==
    Cardinality({ KeyOf(d[i], fields) : i \in 1..Len(d) })

\* C5: on non-empty data with an aggregation entry that passes validation,
\* with valid group-by fields the result has one row per distinct combination
\* of their values and each <source>_<function> value is the function applied
\* to the records of that group; with no group-by field requested the result
\* is exactly one row computed over all records. (The values are compared
\* for the aggregating functions; the row counts for every function.)
C5_OneRowPerGroup ==
    (pc = "done" /\ data # <<>> /\ AggExprs(aggregation_functions) # <<>>)
        => LET valid == ValidGroupByFields(group_by_fields)
               exprs == AggExprs(aggregation_functions)
           IN /\ valid # <<>> =>
                    /\ Len(aggregated) = DistinctKeyCount(data, valid)
                    /\ \A g \in 1..Len(aggregated) : \A k \in 1..Len(exprs) :
                          exprs[k].func \in ReducingMethods =>
                          aggregated[g][Alias(exprs[k].col, exprs[k].func)] =
                              FunctionApplied(exprs[k],
                                  SelectSeq(data, LAMBDA r :
                                      \A f \in 1..Len(valid) :
                                          Scalar(r[valid[f]]) = aggregated[g][<<valid[f]>>]))
              /\ group_by_fields = <<>> =>
                    /\ Len(aggregated) = 1
                    /\ \A k \in 1..Len(exprs) :
                          exprs[k].func \in ReducingMethods =>
                          aggregated[1][Alias(exprs[k].col, exprs[k].func)] =
                              FunctionApplied(exprs[k], data)

\* C6: when group-by names are given and none is a column, the result is
\* empty whatever the aggregation functions are.
C6_UnknownGroupByGivesEmpty ==
    (pc = "done" /\ group_by_fields # <<>>
        /\ \A i \in 1..Len(group_by_fields) : group_by_fields[i] \notin ColumnSet)
        => aggregated = <<>>

\* Unknown group-by names with non-empty data and a valid aggregation.
C6_Witness ==
    /\ pc = "done"
    /\ group_by_fields = <<"region", "area">>
    /\ Len(data) = 2
    /\ \E i \in 1..Len(aggregation_functions) :
          aggregation_functions[i] = AggEntry("oil_prod", "sum")
    /\ aggregated = <<>>

\* An entry on a column of the records with a function polars can apply.
SupportedFunctions == {"sum", "count", "max", "last", "abs", "reverse"}

ValidEntry(e) == e.col \in ModelFields /\ e.func \in SupportedFunctions

ValidEntries(aggs) == SelectSeq(aggs, ValidEntry)

\* C13: entries on a missing column or with an unsupported function are
\* skipped: when a valid entry remains the result is that of the call with
\* the valid entries only, and every valid entry has its column in every row.
C13_InvalidEntriesSkipped ==
    (pc = "done" /\ ValidEntries(aggregation_functions) # <<>>)
        => /\ aggregated \in aggregate_production(data, group_by_fields,
                                                   ValidEntries(aggregation_functions))
           /\ \A g \in 1..Len(aggregated) :
                 \A k \in 1..Len(aggregation_functions) :
                    ValidEntry(aggregation_functions[k])
                        => Alias(aggregation_functions[k].col,
                                 aggregation_functions[k].func) \in DOMAIN aggregated[g]

\* An entry on a missing column before a valid one, grouped, on two records.
C13_Witness ==
    /\ pc = "done"
    /\ Len(aggregation_functions) = 2
    /\ ~ValidEntry(aggregation_functions[1])
    /\ aggregation_functions[2] = AggEntry("oil_prod", "sum")
    /\ group_by_fields = <<"well_code">>
    /\ Len(data) = 2
    /\ Len(aggregated) = 2

\* The record has the row's values in the given columns.
RowOf(row, record, fields) ==
    \A f \in 1..Len(fields) : row[<<fields[f]>>] = Scalar(record[fields[f]])

\* C14: when no aggregation entry survives, the result has one row per
\* distinct combination of the valid group-by columns, holding only those
\* columns, and is empty when there is no valid group-by field.
C14_DimensionOnlyRows ==
    (pc = "done" /\ ValidEntries(aggregation_functions) = <<>>)
        => LET valid == SelectSeq(group_by_fields, LAMBDA f : f \in ModelFields)
           IN IF valid = <<>> THEN aggregated = <<>>
              ELSE /\ Len(aggregated) = DistinctKeyCount(data, valid)
                   /\ \A g \in 1..Len(aggregated) :
                         /\ DOMAIN aggregated[g] = { <<valid[f]>> : f \in 1..Len(valid) }
                         /\ \E i \in 1..Len(data) : RowOf(aggregated[g], data[i], valid)
                   /\ \A i \in 1..Len(data) :
                         \E g \in 1..Len(aggregated) : RowOf(aggregated[g], data[i], valid)

\* Two records of the same well, grouped by well, with no surviving entry.
C14_Witness ==
    /\ pc = "done"
    /\ Len(data) = 2
    /\ data[1].well_code = data[2].well_code
    /\ data[1] # data[2]
    /\ group_by_fields = <<"region", "well_code">>
    /\ aggregation_functions = <<AggEntry("price", "sum")>>
    /\ Len(aggregated) = 1

\* The position in data of the first record with the row's group key.
FirstSeen(row, fields) ==
    CHOOSE i \in 1..Len(data) :
        /\ RowOf(row, data[i], fields)
        /\ \A j \in 1..(i - 1) : ~RowOf(row, data[j], fields)

\* C15: the rows are in first-seen order of their group keys in the input,
\* for the aggregated result and for the dimension-only result.
C15_FirstSeenOrder ==
    pc = "done" =>
        LET valid == SelectSeq(group_by_fields, LAMBDA f : f \in ModelFields)
        IN valid # <<>> =>
              \A g, h \in 1..Len(aggregated) :
                  g < h => FirstSeen(aggregated[g], valid) < FirstSeen(aggregated[h], valid)

----------------------------------------------------------------------------
(* DataService.join_data *)

OilPrice(d, name, code, p) ==
    [reference_date |-> d, field_name |-> name, field_code |-> code, price |-> p]

ExchangeRate(d, r) == [reference_date |-> d, rate |-> r]

\* model_dump() of any entity: the dict of its fields.
EntityDump(e) == [c \in DOMAIN e |-> e[c]]

\* The columns of a frame built from a non-empty list of dicts.
FrameColumns(rows) == DOMAIN rows[1]

\* One output row of a join: the left row, and the right row's columns other
\* than the key (null when there is no right row).
JoinedRow(l, right_columns, r, matched) ==
    [c \in (DOMAIN l) \cup (right_columns \ {"reference_date"}) |->
        IF c \in DOMAIN l THEN l[c]
        ELSE IF matched THEN r[c] ELSE None]

\* The match with a tolerance of one on the key.
KeyMatchesTolerant(l, right) ==
    SelectSeq(right, LAMBDA r : r.reference_date.n - l.reference_date.n \in {-1, 0, 1})

\* The right rows whose key equals the left row's.
KeyMatches(l, right) ==
    SelectSeq(right, LAMBDA r : PyEq(r.reference_date, l.reference_date))

\* The inner join: a left row without a match gives no row.
RECURSIVE InnerJoin(_, _)
InnerJoin(left, right) ==
    IF left = <<>> THEN <<>>
    ELSE LET l == Head(left)
             m == KeyMatches(l, right)
             cols == FrameColumns(right)
         IN [i \in 1..Len(m) |-> JoinedRow(l, cols, m[i], TRUE)]
            \o InnerJoin(Tail(left), right)

\* Lines 235 and 246: left.join(right, on="reference_date", how="left"). Rows
\* are listed in left order, the matches of a row in right order; the order
\* of a frame's rows is not part of what join_data promises.
RECURSIVE LeftJoin(_, _)
LeftJoin(left, right) ==
    IF left = <<>> THEN <<>>
    ELSE LET l == Head(left)
             m == KeyMatches(l, right)
             cols == FrameColumns(right)
             out == IF m = <<>>
                    THEN << JoinedRow(l, cols, l, FALSE) >>
                    ELSE [i \in 1..Len(m) |-> JoinedRow(l, cols, m[i], TRUE)]
         IN out \o LeftJoin(Tail(left), right)

\* The step with an empty right list ending the join with no row.
JoinStepEmptyOnEmpty(joined_df, right_data) ==
    IF right_data = <<>> THEN <<>>
    ELSE LeftJoin(joined_df, [i \in 1..Len(right_data) |-> EntityDump(right_data[i])])

\* Lines 229-237 and 240-248: one join step, skipped when the right list is
\* empty or its frame has no reference_date column.
JoinStep(joined_df, right_data) ==
    IF right_data = <<>> THEN joined_df
    ELSE LET right_df == [i \in 1..Len(right_data) |-> EntityDump(right_data[i])]
         IN IF "reference_date" \in FrameColumns(right_df)
            THEN LeftJoin(joined_df, right_df)
            ELSE joined_df

join_data(production_data, prices, rates) ==
    IF production_data = <<>> THEN <<>>
    ELSE LET dict_production_data ==
                 [i \in 1..Len(production_data) |-> EntityDump(production_data[i])]
         IN JoinStep(JoinStep(dict_production_data, prices), rates)

----------------------------------------------------------------------------
(* Arguments of the join calls *)

D3 == Date(20230103)
FieldA == Str(<<"x">>)

JoinProductionPool ==
    { Production(D1, Num(10), Num(5), Num(0), W1),
      Production(D1, Num(20), Num(5), Num(0), W2),
      Production(D2, Num(20), Num(7), Num(0), W1) }

PricePool ==
    { OilPrice(D1, FieldA, W1, Num(70)),
      OilPrice(D1, FieldA, W2, Num(80)),
      OilPrice(D3, FieldA, W1, Num(90)) }

RatePool == { ExchangeRate(D1, Num(5)), ExchangeRate(D1, Num(6)), ExchangeRate(D2, Num(7)) }

----------------------------------------------------------------------------
(* Specification of the join calls *)

InitJoin ==
    /\ pc = "call"
    /\ OuterIdle({})
    /\ data \in SeqsUpTo(JoinProductionPool, MaxData)
    /\ price_data \in SeqsUpTo(PricePool, MaxRight)
    /\ exchange_data \in SeqsUpTo(RatePool, MaxRight)
    /\ joined = <<>>
    /\ criteria = <<>>
    /\ filtered_data = <<>>
    /\ group_by_fields = <<>>
    /\ aggregation_functions = <<>>
    /\ aggregated = <<>>
    /\ DcaIdle
    /\ EngineIdle
    /\ UseCaseIdle

JoinData ==
    /\ pc = "call"
    /\ OuterUnchanged({})
    /\ joined' = join_data(data, price_data, exchange_data)
    /\ pc' = "done"
    /\ UNCHANGED engineVars
    /\ UNCHANGED <<data, price_data, exchange_data, filterVars, aggregateVars, dcaVars, useCaseVars>>

NextJoin == JoinData

SpecJoin == InitJoin /\ [][NextJoin]_vars

----------------------------------------------------------------------------
(* Properties of join_data *)

ProductionPart(row) == [c \in ColumnSet |-> row[c]]

AtLeastOne(n) == IF n = 0 THEN 1 ELSE n

SameDate(rows, p) == { j \in 1..Len(rows) : rows[j].reference_date = p.reference_date }

\* C3: each production row gives max(1, price rows of its date) times
\* max(1, rate rows of its date) output rows, so none is lost and right rows
\* sharing a date are not deduplicated; an empty production list gives [].
C3_LeftJoinRowCounts ==
    pc = "done" =>
        /\ data = <<>> => joined = <<>>
        /\ \A i \in 1..Len(data) :
              Cardinality({ k \in 1..Len(joined) : ProductionPart(joined[k]) = data[i] })
                  = Cardinality({ j \in 1..Len(data) : data[j] = data[i] })
                    * AtLeastOne(Cardinality(SameDate(price_data, data[i])))
                    * AtLeastOne(Cardinality(SameDate(exchange_data, data[i])))

\* One production row with two prices and two rates of its date gives four
\* rows, next to a production row without any price of its date.
C3_Witness ==
    /\ pc = "done"
    /\ Len(data) = 2
    /\ Cardinality(SameDate(price_data, data[1])) = 2
    /\ Cardinality(SameDate(exchange_data, data[1])) = 2
    /\ SameDate(price_data, data[2]) = {}
    /\ Len(joined) = 5

PriceColumns == {"field_name", "field_code", "price"}
RateColumns == {"rate"}

\* The columns of the row are all null, or copied from a right row of the
\* row's own date.
NullOrCopied(row, columns, right) ==
    \/ \A c \in columns : row[c] = None
    \/ \E j \in 1..Len(right) :
          /\ right[j].reference_date = row.reference_date
          /\ \A c \in columns : row[c] = right[j][c]

\* C4: every row of the result, restricted to the Production columns, is a
\* row of the production input, and its price and rate columns are null or
\* copied from a right-hand row with exactly the row's reference_date.
C4_RowsComeFromInputs ==
    pc = "done" =>
        \A k \in 1..Len(joined) :
            /\ \E i \in 1..Len(data) : ProductionPart(joined[k]) = data[i]
            /\ PriceColumns \subseteq DOMAIN joined[k]
                  => NullOrCopied(joined[k], PriceColumns, price_data)
            /\ RateColumns \subseteq DOMAIN joined[k]
                  => NullOrCopied(joined[k], RateColumns, exchange_data)

\* A row with a copied rate and null prices, the price list holding only the
\* day before and the day after the row's date.
C4_Witness ==
    /\ pc = "done"
    /\ \E k \in 1..Len(joined) :
          /\ joined[k].reference_date = D2
          /\ PriceColumns \subseteq DOMAIN joined[k]
          /\ joined[k].price = None
          /\ RateColumns \subseteq DOMAIN joined[k]
          /\ joined[k].rate = Num(7)
    /\ Len(price_data) = 2
    /\ price_data[1].reference_date = D1
    /\ price_data[2].reference_date = D3

\* The rows are those of a join of the production rows with one right table
\* (or with none, when that table is empty too): the columns are those of
\* Production and of the table, and each production row has one row per
\* match, or one row when it has no match.
JoinedWithOnly(right, right_columns) ==
    /\ \A k \in 1..Len(joined) :
          DOMAIN joined[k] = ColumnSet \cup (IF right = <<>> THEN {} ELSE right_columns)
    /\ \A i \in 1..Len(data) :
          Cardinality({ k \in 1..Len(joined) : ProductionPart(joined[k]) = data[i] })
              = Cardinality({ j \in 1..Len(data) : data[j] = data[i] })
                * AtLeastOne(Cardinality(SameDate(right, data[i])))

\* C16: with an empty price list (or an empty exchange-rate list) that join
\* step is skipped: the result is the join with the other table only and no
\* row has the skipped table's columns.
C16_EmptyRightTableSkipped ==
    pc = "done" =>
        /\ price_data = <<>> => JoinedWithOnly(exchange_data, RateColumns)
        /\ exchange_data = <<>> => JoinedWithOnly(price_data, PriceColumns)

\* No price, and two rates of the date of the only production row.
C16_Witness ==
    /\ pc = "done"
    /\ Len(data) = 1
    /\ price_data = <<>>
    /\ Cardinality(SameDate(exchange_data, data[1])) = 2
    /\ Len(joined) = 2
    /\ \A k \in 1..2 : "price" \notin DOMAIN joined[k] /\ "rate" \in DOMAIN joined[k]

----------------------------------------------------------------------------
(* Decline-curve analysis: DCAService and DeclineCurveAnalysisUseCase *)

\* The names src/core/exceptions.py defines.
CoreExceptions ==
    {"AppException", "NotFoundException", "BadRequestException",
     "ConfigurationError", "DatabaseError"}

\* Line 10 of the use case's module:
\* from src.core.exceptions import NotFoundError, ValueError
ImportedNames == {"NotFoundError", "ValueError"}

\* The import statement succeeds when the module defines every name.
ImportSucceeds == ImportedNames \subseteq CoreExceptions

UpperCase == <<"B", "C", "E", "H", "I", "L", "O", "P", "R", "Y">>
LowerCase == <<"b", "c", "e", "h", "i", "l", "o", "p", "r", "y">>

\* str.lower()
Lower(chars) ==
    [i \in 1..Len(chars) |->
        IF \E k \in 1..Len(UpperCase) : UpperCase[k] = chars[i]
        THEN LowerCase[CHOOSE k \in 1..Len(UpperCase) : UpperCase[k] = chars[i]]
        ELSE chars[i]]

Exponential == <<"e", "x", "p", "o", "n", "e", "n", "t", "i", "a", "l">>
Hyperbolic == <<"h", "y", "p", "e", "r", "b", "o", "l", "i", "c">>

\* DCAService.fit_exponential: the exception it raises, "none" when it
\* returns parameters. curve_fit raises RuntimeError when it finds no optimum.
fit_exponential(points, fit) ==
    IF points < 2 THEN "builtins.ValueError"
    ELSE IF fit = "no_optimum" THEN "builtins.RuntimeError"
    ELSE "none"

\* DCAService.fit_hyperbolic
fit_hyperbolic(points, fit) ==
    IF points < 3 THEN "builtins.ValueError"
    ELSE IF fit = "no_optimum" THEN "builtins.RuntimeError"
    ELSE "none"

\* DCAService.fit_model_and_generate_forecast: the exception it raises,
\* "none" when it returns the fitted and forecast series.
fit_model_and_generate_forecast(points, model_type, fit) ==
    IF Lower(model_type) = Exponential THEN fit_exponential(points, fit)
    ELSE IF Lower(model_type) = Hyperbolic THEN fit_hyperbolic(points, fit)
    ELSE "builtins.ValueError"

\* DeclineCurveAnalysisUseCase.execute, were its module loaded: the exception
\* raised and the calls made. NotFoundError and ValueError are the classes
\* the import binds; the name ValueError then no longer denotes the builtin,
\* so that "except ValueError" does not catch the engine's builtin ValueError.
execute(req, repo_wells, history, fit) ==
    IF req.well_code \notin repo_wells
    THEN [raised |-> "NotFoundError",
          lookups |-> [well |-> 1, production |-> 0, engine |-> 0]]
    ELSE IF history = <<>>
    THEN [raised |-> "ValueError",
          lookups |-> [well |-> 1, production |-> 1, engine |-> 0]]
    ELSE IF Len(history) < 2
    THEN [raised |-> "ValueError",
          lookups |-> [well |-> 1, production |-> 1, engine |-> 0]]
    ELSE IF Lower(req.model_type) = Hyperbolic /\ Len(history) < 3
    THEN [raised |-> "ValueError",
          lookups |-> [well |-> 1, production |-> 1, engine |-> 0]]
    ELSE LET engine == fit_model_and_generate_forecast(Len(history), req.model_type, fit)
         IN [raised |-> IF engine = "builtins.RuntimeError" THEN "ValueError" ELSE engine,
             lookups |-> [well |-> 1, production |-> 1, engine |-> 1]]

\* A caller's use of the use case: importing its module, then execute.
analyze_decline_curve(req, repo_wells, history, fit) ==
    IF ~ImportSucceeds
    THEN [raised |-> "builtins.ImportError", lookups |-> NoCalls]
    ELSE execute(req, repo_wells, history, fit)

----------------------------------------------------------------------------
(* Arguments of the analysis calls *)

ModelTypePool ==
    { Exponential, Hyperbolic,
      <<"H", "y", "p", "e", "r", "b", "o", "l", "i", "c">>,
      <<"H", "Y", "P", "E", "R", "B", "O", "L", "I", "C">>,
      <<"l", "i", "n", "e", "a", "r">> }

WellCodes == {"W1", "W2"}

\* The well's records, ascending by date: day numbers and oil rates.
History(n) == [i \in 1..n |-> [reference_date |-> 30 * (i - 1), oil_prod |-> 1000 - 100 * i]]

----------------------------------------------------------------------------
(* Specification of the analysis calls *)

InitDca ==
    /\ pc = "call"
    /\ OuterIdle({})
    /\ request \in [well_code : WellCodes, model_type : ModelTypePool]
    /\ wells \in {{}, {"W1"}}
    /\ production_history \in { History(n) : n \in 0..MaxHistory }
    /\ optimizer \in {"converged", "no_optimum"}
    /\ raised = "none"
    /\ lookups = NoCalls
    /\ data = <<>>
    /\ criteria = <<>>
    /\ filtered_data = <<>>
    /\ group_by_fields = <<>>
    /\ aggregation_functions = <<>>
    /\ aggregated = <<>>
    /\ price_data = <<>>
    /\ exchange_data = <<>>
    /\ joined = <<>>
    /\ UseCaseIdle
    /\ EngineIdle

DeclineCurveAnalysis ==
    /\ pc = "call"
    /\ OuterUnchanged({})
    /\ LET r == analyze_decline_curve(request, wells, production_history, optimizer)
       IN /\ raised' = r.raised
          /\ lookups' = r.lookups
    /\ pc' = "done"
    /\ UNCHANGED engineVars
    /\ UNCHANGED <<request, wells, production_history, optimizer,
                   data, filterVars, aggregateVars, joinVars, useCaseVars>>

NextDca == DeclineCurveAnalysis

SpecDca == InitDca /\ [][NextDca]_vars

----------------------------------------------------------------------------
(* Properties of the decline-curve analysis *)

\* C7: when the well lookup finds no well for the requested code, execute
\* raises NotFoundError, and neither the production lookup nor the engine is
\* invoked.
C7_AbsentWellRaisesNotFound ==
    (pc = "done" /\ request.well_code \notin wells)
        => /\ raised = "NotFoundError"
           /\ lookups.production = 0
           /\ lookups.engine = 0

TooFewPoints ==
    \/ Len(production_history) < 2
    \/ Lower(request.model_type) = Hyperbolic /\ Len(production_history) < 3

\* C8: with fewer than 2 records, or fewer than 3 for a hyperbolic model
\* (compared case-insensitively), execute raises the validation error and the
\* engine is not invoked.
C8_TooFewPointsRaisesValidation ==
    (pc = "done" /\ request.well_code \in wells /\ TooFewPoints)
        => /\ raised = "ValueError"
           /\ lookups.engine = 0

\* C9: the only errors that reach the caller are NotFoundError and the
\* validation error; every engine failure arrives as the validation error.
C9_OnlyNotFoundOrValidation ==
    pc = "done" => raised \in {"none", "NotFoundError", "ValueError"}

----------------------------------------------------------------------------
(* Orchestration of the tabular engine: JoinTablesUseCase,                 *)
(* FilterProductionUseCase, AggregateProductionUseCase.                    *)
(* The repositories are collaborators: a list() call returns the list the  *)
(* repository holds, returns None, or raises.                              *)

FetchOutcomes == {"list", "none", "raises"}

\* The try block around a repository's list(): None is replaced by [].
FetchedList(outcome, held) == IF outcome = "list" THEN held ELSE <<>>

\* The execute that gives up when the price fetch raises.
JoinTablesExecuteAbortOnPrices(outcomes, production_held, prices_held, rates_held) ==
    IF outcomes.production = "raises" \/ outcomes.prices = "raises"
    THEN [returned |-> <<>>, engine_calls |-> 0]
    ELSE IF FetchedList(outcomes.production, production_held) = <<>>
    THEN [returned |-> <<>>, engine_calls |-> 0]
    ELSE [returned |-> join_data(FetchedList(outcomes.production, production_held),
                                 FetchedList(outcomes.prices, prices_held),
                                 FetchedList(outcomes.rates, rates_held)),
          engine_calls |-> 1]

\* JoinTablesUseCase.execute: the returned rows and the calls of join_data.
JoinTablesExecute(outcomes, production_held, prices_held, rates_held) ==
    IF outcomes.production = "raises"
    THEN [returned |-> <<>>, engine_calls |-> 0]
    ELSE LET production_data == FetchedList(outcomes.production, production_held)
         IN IF production_data = <<>>
            THEN [returned |-> <<>>, engine_calls |-> 0]
            ELSE LET oil_price_data == FetchedList(outcomes.prices, prices_held)
                     exchange_rate_data == FetchedList(outcomes.rates, rates_held)
                 IN [returned |-> join_data(production_data, oil_price_data,
                                            exchange_rate_data),
                     engine_calls |-> 1]

InitJoinUseCase ==
    /\ pc = "call"
    /\ OuterIdle({})
    /\ use_case = "join"
    /\ fetch \in [production : FetchOutcomes, prices : FetchOutcomes, rates : FetchOutcomes]
    /\ data \in SeqsUpTo(JoinProductionPool, MaxFetched)
    /\ price_data \in SeqsUpTo(PricePool, MaxFetched)
    /\ exchange_data \in SeqsUpTo(RatePool, MaxFetched)
    /\ returned = <<>>
    /\ engine_calls = 0
    /\ joined = <<>>
    /\ criteria = <<>>
    /\ filtered_data = <<>>
    /\ group_by_fields = <<>>
    /\ aggregation_functions = <<>>
    /\ aggregated = <<>>
    /\ DcaIdle
    /\ EngineIdle

JoinTables ==
    /\ pc = "call"
    /\ OuterUnchanged({})
    /\ use_case = "join"
    /\ LET r == JoinTablesExecute(fetch, data, price_data, exchange_data)
       IN /\ returned' = r.returned
          /\ engine_calls' = r.engine_calls
    /\ pc' = "done"
    /\ UNCHANGED engineVars
    /\ UNCHANGED <<use_case, fetch, data, filterVars, aggregateVars, joinVars, dcaVars>>

NextJoinUseCase == JoinTables

SpecJoinUseCase == InitJoinUseCase /\ [][NextJoinUseCase]_vars

\* C17: when the price or rate fetch raises or returns None the use case
\* returns join_data's result with that table empty; when the production
\* fetch raises, returns None or returns no record, it returns [] without
\* calling join_data.
C17_JoinDegradesOnOptionalTables ==
    (pc = "done" /\ use_case = "join") =>
        IF fetch.production # "list" \/ data = <<>>
        THEN returned = <<>> /\ engine_calls = 0
        ELSE /\ engine_calls = 1
             /\ returned = join_data(data,
                                     IF fetch.prices = "list" THEN price_data ELSE <<>>,
                                     IF fetch.rates = "list" THEN exchange_data ELSE <<>>)

\* The price fetch raises, the rate fetch succeeds with a rate of the
\* production row's date: one row, with a rate and without price columns.
C17_Witness ==
    /\ pc = "done"
    /\ use_case = "join"
    /\ fetch = [production |-> "list", prices |-> "raises", rates |-> "list"]
    /\ Len(data) = 1
    /\ price_data # <<>>
    /\ SameDate(exchange_data, data[1]) # {}
    /\ Len(returned) = 1
    /\ "rate" \in DOMAIN returned[1]
    /\ "price" \notin DOMAIN returned[1]
    /\ returned[1].rate # None

----------------------------------------------------------------------------
(* FilterProductionUseCase and AggregateProductionUseCase *)

\* The declared type of each ProductionResponse field.
ResponseFieldTypes ==
    [reference_date |-> "date", oil_prod |-> "num", gas_prod |-> "num",
     water_prod |-> "num", well_code |-> "str"]

\* ProductionResponse(**dump) validates: every field has its declared type.
ResponseValidates(dump) ==
    \A f \in DOMAIN ResponseFieldTypes : dump[f].t = ResponseFieldTypes[f]

\* ProductionResponse(**entity.model_dump()): the DTO carries the five fields.
ProductionResponse(dump) == [f \in DOMAIN ResponseFieldTypes |-> dump[f]]

\* The execute that passes whatever list it holds on to the engine.
FilterProductionExecuteNoEmptyGuard(outcome, held, crit) ==
    IF outcome = "raises"
    THEN [returned |-> <<>>, engine_calls |-> 0, raised |-> "none"]
    ELSE LET all_production_entities == FetchedList(outcome, held)
             filtered_entities == filter_production(all_production_entities, crit)
         IN IF \E i \in 1..Len(filtered_entities) :
                   ~ResponseValidates(ModelDump(filtered_entities[i]))
            THEN [returned |-> <<>>, engine_calls |-> 1, raised |-> "none"]
            ELSE [returned |-> [i \in 1..Len(filtered_entities) |->
                                   ProductionResponse(ModelDump(filtered_entities[i]))],
                  engine_calls |-> 1, raised |-> "none"]

\* FilterProductionUseCase.execute: the returned DTOs, the calls of
\* filter_production and the exception that leaves execute.
FilterProductionExecute(outcome, held, crit) ==
    IF outcome = "raises"
    THEN [returned |-> <<>>, engine_calls |-> 0, raised |-> "none"]
    ELSE LET all_production_entities == FetchedList(outcome, held)
         IN IF all_production_entities = <<>>
            THEN [returned |-> <<>>, engine_calls |-> 0, raised |-> "none"]
            ELSE LET filtered_entities ==
                         filter_production(all_production_entities, crit)
                 IN IF \E i \in 1..Len(filtered_entities) :
                           ~ResponseValidates(ModelDump(filtered_entities[i]))
                    THEN [returned |-> <<>>, engine_calls |-> 1, raised |-> "none"]
                    ELSE [returned |-> [i \in 1..Len(filtered_entities) |->
                                           ProductionResponse(ModelDump(filtered_entities[i]))],
                          engine_calls |-> 1, raised |-> "none"]

\* AggregateProductionUseCase.execute: the results it can return, with the
\* calls of aggregate_production and the exception that leaves execute.
AggregateProductionExecute(outcome, held, fields, aggs) ==
    IF outcome = "raises"
    THEN { [returned |-> <<>>, engine_calls |-> 0, raised |-> "none"] }
    ELSE LET all_production_entities == FetchedList(outcome, held)
         IN IF all_production_entities = <<>>
            THEN { [returned |-> <<>>, engine_calls |-> 0, raised |-> "none"] }
            ELSE { [returned |-> aggregated_data, engine_calls |-> 1, raised |-> "none"] :
                     aggregated_data \in
                         aggregate_production(all_production_entities, fields, aggs) }

OneEntryDicts(pool) == { <<>> } \cup { <<entry>> : entry \in pool }

InitTabularUseCases ==
    /\ pc = "call"
    /\ OuterIdle({})
    /\ use_case \in {"filter", "aggregate"}
    /\ fetch \in { [AllFetched EXCEPT !.production = o] : o \in FetchOutcomes }
    /\ \/ /\ use_case = "filter"
          /\ data \in SeqsUpTo(ProductionPool, MaxFetched)
          /\ criteria \in OneEntryDicts(CriteriaPool)
          /\ group_by_fields = <<>>
          /\ aggregation_functions = <<>>
       \/ /\ use_case = "aggregate"
          /\ data \in SeqsUpTo(AggregatePool, MaxFetched)
          /\ criteria = <<>>
          /\ group_by_fields \in GroupByPool
          /\ aggregation_functions \in OneEntryDicts(AggregationPool)
    /\ returned = <<>>
    /\ engine_calls = 0
    /\ filtered_data = <<>>
    /\ aggregated = <<>>
    /\ price_data = <<>>
    /\ exchange_data = <<>>
    /\ joined = <<>>
    /\ DcaIdle
    /\ EngineIdle

FilterExecute ==
    /\ pc = "call"
    /\ OuterUnchanged({})
    /\ use_case = "filter"
    /\ LET r == FilterProductionExecute(fetch.production, data, criteria)
       IN /\ returned' = r.returned
          /\ engine_calls' = r.engine_calls
          /\ raised' = r.raised
    /\ pc' = "done"
    /\ UNCHANGED engineVars
    /\ UNCHANGED <<use_case, fetch, data, filterVars, aggregateVars, joinVars,
                   request, wells, production_history, optimizer, lookups>>

AggregateExecute ==
    /\ pc = "call"
    /\ OuterUnchanged({})
    /\ use_case = "aggregate"
    /\ \E r \in AggregateProductionExecute(fetch.production, data, group_by_fields,
                                           aggregation_functions) :
          /\ returned' = r.returned
          /\ engine_calls' = r.engine_calls
          /\ raised' = r.raised
    /\ pc' = "done"
    /\ UNCHANGED engineVars
    /\ UNCHANGED <<use_case, fetch, data, filterVars, aggregateVars, joinVars,
                   request, wells, production_history, optimizer, lookups>>

NextTabularUseCases == FilterExecute \/ AggregateExecute

SpecTabularUseCases == InitTabularUseCases /\ [][NextTabularUseCases]_vars

\* C18: when the production repository's list() raises, returns None or
\* returns no record, FilterProductionUseCase.execute and
\* AggregateProductionUseCase.execute return [], raise nothing and do not
\* call the engine.
C18_NoProductionGivesEmpty ==
    (pc = "done" /\ use_case \in {"filter", "aggregate"}
        /\ (fetch.production # "list" \/ data = <<>>))
        => /\ returned = <<>>
           /\ raised = "none"
           /\ engine_calls = 0

\* The repository holds a record but list() raises, under arguments with
\* which the engine would have returned a row.
C18_Witness ==
    /\ pc = "done"
    /\ use_case = "filter"
    /\ fetch.production = "raises"
    /\ data # <<>>
    /\ filter_production(data, criteria) # <<>>
    /\ returned = <<>>
    /\ engine_calls = 0

----------------------------------------------------------------------------
(* DCAService: the fitted and the forecast series.                         *)
(* Times are whole elapsed days. A rate is kept as the expression the      *)
(* decline function computes, reduced where its value is qi itself:        *)
(* qi * exp(-x) with x = Di * t, or qi / base^(1/b) with                   *)
(* base = 1 + b * Di * t. Parameters are whole numbers of their unit.      *)

Undecayed(qi) == [qi |-> qi, decay |-> <<"one">>]

\* DCAService._exponential_decline: qi * exp(-Di * t)
exponential_decline(t, qi, Di) ==
    IF qi = 0 \/ Di * t = 0 THEN Undecayed(qi)
    ELSE [qi |-> qi, decay |-> <<"exp", Di * t>>]

\* DCAService._hyperbolic_decline: qi / (1 + b * Di * t)^(1/b)
hyperbolic_decline(t, qi, Di, b) ==
    IF b = 0 THEN exponential_decline(t, qi, Di)
    ELSE IF qi = 0 \/ b * Di * t = 0 THEN Undecayed(qi)
    ELSE [qi |-> qi, decay |-> <<"pow", 1 + b * Di * t, b>>]

\* dict(zip(param_names, parameters))
FittedParamsDict(decline_func, parameters) ==
    IF decline_func = "exponential"
    THEN [qi |-> parameters.qi, Di |-> parameters.Di]
    ELSE [qi |-> parameters.qi, Di |-> parameters.Di, b |-> parameters.b]

\* DCAService.generate_rates
generate_rates(decline_func, time_points, params) ==
    [i \in 1..Len(time_points) |->
        IF decline_func = "exponential"
        THEN exponential_decline(time_points[i], params.qi, params.Di)
        ELSE hyperbolic_decline(time_points[i], params.qi, params.Di, params.b)]

\* np.arange(start, stop) over whole numbers
np_arange(start, stop) ==
    [i \in 1..(IF stop > start THEN stop - start ELSE 0) |-> start + i - 1]

\* The forecast that restarts the clock at the last observed time.
GenerateSeriesRelative(time_actual_np, model_type, parameters, forecast_duration) ==
    LET decline_func == IF Lower(model_type) = Exponential THEN "exponential"
                        ELSE "hyperbolic"
        fitted_params_dict == FittedParamsDict(decline_func, parameters)
        last_actual_time == IF Len(time_actual_np) > 0
                            THEN time_actual_np[Len(time_actual_np)] ELSE 0
        forecast_time_points == np_arange(last_actual_time + 1,
                                          last_actual_time + 1 + forecast_duration)
    IN [rate_fitted |-> generate_rates(decline_func, time_actual_np, fitted_params_dict),
        time_forecast |-> forecast_time_points,
        rate_forecast |-> generate_rates(decline_func,
                              [i \in 1..Len(forecast_time_points) |->
                                  forecast_time_points[i] - last_actual_time],
                              fitted_params_dict),
        parameters |-> fitted_params_dict]

\* fit_model_and_generate_forecast after the fit returned parameters: the
\* fitted series, the forecast time points, the forecast series and the
\* parameter dict.
GenerateSeries(time_actual_np, model_type, parameters, forecast_duration) ==
    LET decline_func == IF Lower(model_type) = Exponential THEN "exponential"
                        ELSE "hyperbolic"
        fitted_params_dict == FittedParamsDict(decline_func, parameters)
        last_actual_time == IF Len(time_actual_np) > 0
                            THEN time_actual_np[Len(time_actual_np)] ELSE 0
        forecast_time_points == np_arange(last_actual_time + 1,
                                          last_actual_time + 1 + forecast_duration)
    IN [rate_fitted |-> generate_rates(decline_func, time_actual_np, fitted_params_dict),
        time_forecast |-> forecast_time_points,
        rate_forecast |-> generate_rates(decline_func, forecast_time_points,
                                         fitted_params_dict),
        parameters |-> fitted_params_dict]

ElapsedDays == {0, 1, 3}

\* What curve_fit can return within the bounds the fits pass.
FittedPool == [qi : {0, 100}, Di : {0, 2}, b : {1, 2}]

InitForecast ==
    /\ pc = "call"
    /\ OuterIdle({})
    /\ time_actual \in SeqsUpTo(ElapsedDays, MaxHistory)
    /\ request \in [model_type : ModelTypePool, forecast_duration : -1..MaxForecast]
    /\ optimizer \in {"converged", "no_optimum"}
    /\ fitted \in FittedPool
    /\ forecast = NoForecast
    /\ fitting = NoFit
    /\ raised = "none"
    /\ wells = {}
    /\ production_history = <<>>
    /\ lookups = NoCalls
    /\ data = <<>>
    /\ criteria = <<>>
    /\ filtered_data = <<>>
    /\ group_by_fields = <<>>
    /\ aggregation_functions = <<>>
    /\ aggregated = <<>>
    /\ price_data = <<>>
    /\ exchange_data = <<>>
    /\ joined = <<>>
    /\ UseCaseIdle

FitModelAndGenerateForecast ==
    /\ pc = "call"
    /\ OuterUnchanged({})
    /\ LET failure == fit_model_and_generate_forecast(Len(time_actual),
                                                      request.model_type, optimizer)
       IN /\ raised' = failure
          /\ forecast' = IF failure = "none"
                         THEN GenerateSeries(time_actual, request.model_type, fitted,
                                             request.forecast_duration)
                         ELSE NoForecast
    /\ pc' = "returned"
    /\ UNCHANGED <<time_actual, fitted, fitting, request, wells, production_history,
                   optimizer, lookups, data, filterVars, aggregateVars, joinVars,
                   useCaseVars>>

NextForecast == FitModelAndGenerateForecast

SpecForecast == InitForecast /\ [][NextForecast]_vars

\* The value of the fitted model of the request at elapsed time t.
ModelAt(t) ==
    IF Lower(request.model_type) = Exponential
    THEN exponential_decline(t, fitted.qi, fitted.Di)
    ELSE hyperbolic_decline(t, fitted.qi, fitted.Di, fitted.b)

LastObserved == time_actual[Len(time_actual)]

\* C19: with last observed time L and forecast_duration D the forecast time
\* points are L+1, ..., L+D (none when D <= 0), rate_forecast has one value
\* per point, and each value is the fitted model at that absolute time, with
\* the parameters of the fitted series.
C19_ForecastAtAbsoluteTime ==
    (pc = "returned" /\ raised = "none")
        => LET D == IF request.forecast_duration > 0
                    THEN request.forecast_duration ELSE 0
           IN /\ Len(forecast.time_forecast) = D
              /\ \A i \in 1..D : forecast.time_forecast[i] = LastObserved + i
              /\ Len(forecast.rate_forecast) = D
              /\ \A i \in 1..D : forecast.rate_forecast[i] = ModelAt(LastObserved + i)
              /\ Len(forecast.rate_fitted) = Len(time_actual)
              /\ \A j \in 1..Len(time_actual) :
                    forecast.rate_fitted[j] = ModelAt(time_actual[j])

\* A hyperbolic fit whose series ends at day 3, forecast over two days: the
\* rates are those of days 4 and 5, not of days 1 and 2.
C19_Witness ==
    /\ pc = "returned"
    /\ raised = "none"
    /\ Lower(request.model_type) = Hyperbolic
    /\ request.forecast_duration = 2
    /\ LastObserved = 3
    /\ fitted.qi > 0
    /\ fitted.Di > 0
    /\ forecast.time_forecast = <<4, 5>>
    /\ forecast.rate_forecast = <<ModelAt(4), ModelAt(5)>>
    /\ forecast.rate_forecast[1] # ModelAt(1)

----------------------------------------------------------------------------
(* DCAService.fit_exponential and fit_hyperbolic: the optimizer run.       *)
(* Both pass bounds, so curve_fit runs least_squares with method 'trf',    *)
(* which stops with an unsuccessful result once it has evaluated the model *)
(* max_nfev times; curve_fit turns that result into a RuntimeError.        *)

\* maxfev=5000 of the hyperbolic fit
HyperbolicMaxfev == 5000

\* The evaluations least_squares allows when the caller sets none, for a
\* model of n parameters.
DefaultMaxNfev(n) == 100 * n

\* The keyword arguments each fit passes to curve_fit besides p0 and bounds.
FitKwargs(model) ==
    IF model = "hyperbolic" THEN [maxfev |-> HyperbolicMaxfev] ELSE <<>>

\* Number of parameters of the fitted model: len(p0).
ParamCount(model) == IF model = "hyperbolic" THEN 3 ELSE 2

\* The optimizer run curve_fit starts: the evaluation budget and whether the
\* caller set it.
StartedFit(model) ==
    LET kwargs == FitKwargs(model)
        configured == "maxfev" \in DOMAIN kwargs
    IN [model |-> model, status |-> "running", nfev |-> 0,
        max_nfev |-> IF configured THEN kwargs.maxfev
                     ELSE DefaultMaxNfev(ParamCount(model)),
        configured |-> configured]

\* The exception the fit of the model raises, "none" when it returns parameters.
FitOutcome(model, points, outcome) ==
    IF model = "hyperbolic" THEN fit_hyperbolic(points, outcome)
    ELSE fit_exponential(points, outcome)

InitFit ==
    /\ pc = "call"
    /\ OuterIdle({})
    /\ fitting \in { [NoFit EXCEPT !.model = m] : m \in {"exponential", "hyperbolic"} }
    /\ time_actual \in { [i \in 1..n |-> i - 1] : n \in 1..MaxHistory }
    /\ optimizer \in {"converged", "no_optimum"}
    /\ fitted = NoParams
    /\ forecast = NoForecast
    /\ request = <<>>
    /\ raised = "none"
    /\ wells = {}
    /\ production_history = <<>>
    /\ lookups = NoCalls
    /\ data = <<>>
    /\ criteria = <<>>
    /\ filtered_data = <<>>
    /\ group_by_fields = <<>>
    /\ aggregation_functions = <<>>
    /\ aggregated = <<>>
    /\ price_data = <<>>
    /\ exchange_data = <<>>
    /\ joined = <<>>
    /\ UseCaseIdle

fitUnchanged == <<time_actual, fitted, forecast, request, wells, production_history,
                  optimizer, lookups, data, filterVars, aggregateVars, joinVars,
                  useCaseVars>>

\* The length check of the fit, then the call of curve_fit.
CallFit ==
    /\ pc = "call"
    /\ OuterUnchanged({})
    /\ IF FitOutcome(fitting.model, Len(time_actual), "converged") = "builtins.ValueError"
       THEN /\ raised' = "builtins.ValueError"
            /\ fitting' = [fitting EXCEPT !.status = "raised"]
            /\ pc' = "returned"
       ELSE /\ fitting' = StartedFit(fitting.model)
            /\ pc' = "fitting"
            /\ UNCHANGED raised
    /\ UNCHANGED fitUnchanged

\* One more evaluation of the decline function by the optimizer.
Evaluate ==
    /\ pc = "fitting"
    /\ OuterUnchanged({})
    /\ fitting.nfev < fitting.max_nfev
    /\ fitting' = [fitting EXCEPT !.nfev = @ + 1]
    /\ UNCHANGED <<pc, raised>>
    /\ UNCHANGED fitUnchanged

\* The optimizer meets a tolerance: the fit returns the parameters.
Converge ==
    /\ pc = "fitting"
    /\ OuterUnchanged({})
    /\ optimizer = "converged"
    /\ fitting.nfev >= 1
    /\ fitting' = [fitting EXCEPT !.status = "returned"]
    /\ raised' = FitOutcome(fitting.model, Len(time_actual), "converged")
    /\ pc' = "returned"
    /\ UNCHANGED fitUnchanged

\* The budget is used up: curve_fit raises RuntimeError, which the fit re-raises.
Exhaust ==
    /\ pc = "fitting"
    /\ OuterUnchanged({})
    /\ fitting.nfev >= fitting.max_nfev
    /\ fitting' = [fitting EXCEPT !.status = "raised"]
    /\ raised' = FitOutcome(fitting.model, Len(time_actual), "no_optimum")
    /\ pc' = "returned"
    /\ UNCHANGED fitUnchanged

NextFit == CallFit \/ Evaluate \/ Converge \/ Exhaust

SpecFit == InitFit /\ [][NextFit]_vars

\* C20: every fitting call, of fit_exponential and of fit_hyperbolic alike,
\* runs the optimizer under a maximum-iteration budget that the call itself
\* configures.
C20_BudgetExplicitlyConfigured ==
    fitting.status = "running" => fitting.configured

----------------------------------------------------------------------------
(* DCAService.calculate_rmse.                                              *)
(* Rates are finite whole numbers of their unit. The result is kept exact: *)
(* the square root of a non-negative fraction, 0.0 when the fraction is 0. *)

Zero == [root_of |-> <<0, 1>>]

NaN == [root_of |-> <<>>]

RECURSIVE SumSeq(_)
SumSeq(xs) == IF xs = <<>> THEN 0 ELSE xs[1] + SumSeq(Tail(xs))

\* np.mean(xs): the fraction sum / len
np_mean(xs) == <<SumSeq(xs), Len(xs)>>

\* np.sqrt(fraction): nan below zero
np_sqrt(fraction) ==
    IF fraction[1] < 0 THEN NaN
    ELSE IF fraction[1] = 0 THEN Zero
    ELSE [root_of |-> fraction]

\* The rmse over the common prefix of two series of any lengths.
calculate_rmse_common_prefix(actual, fit) ==
    LET n == IF Len(actual) < Len(fit) THEN Len(actual) ELSE Len(fit)
    IN IF n = 0 THEN [raised |-> "none", value |-> Zero]
       ELSE [raised |-> "none",
             value |-> np_sqrt(np_mean([i \in 1..n |->
                           (actual[i] - fit[i]) * (actual[i] - fit[i])]))]

\* DCAService.calculate_rmse
calculate_rmse(actual, fit) ==
    IF Len(actual) # Len(fit)
    THEN [raised |-> "builtins.ValueError", value |-> <<>>]
    ELSE IF Len(actual) = 0
    THEN [raised |-> "none", value |-> Zero]
    ELSE [raised |-> "none",
          value |-> np_sqrt(np_mean([i \in 1..Len(actual) |->
                        (actual[i] - fit[i]) * (actual[i] - fit[i])]))]

RateValues == {0, 2, 5}

InitRmse ==
    /\ pc = "call"
    /\ CoreIdle
    /\ OuterIdle({"rmse"})
    /\ actual_rates \in SeqsUpTo(RateValues, MaxSeries)
    /\ fitted_rates \in SeqsUpTo(RateValues, MaxSeries)
    /\ rmse = NoResult

CalculateRmse ==
    /\ pc = "call"
    /\ rmse' = calculate_rmse(actual_rates, fitted_rates)
    /\ pc' = "returned"
    /\ UNCHANGED <<actual_rates, fitted_rates, coreVars>>
    /\ OuterUnchanged({"rmse"})

NextRmse == CalculateRmse

SpecRmse == InitRmse /\ [][NextRmse]_vars

\* C21: calculate_rmse raises and returns no value when the series differ in
\* length; for series of equal length it returns 0 when they are point-wise
\* identical (0.0 for two empty series) and never a negative value.
C21_RmseContract ==
    pc = "returned"
        => IF Len(actual_rates) # Len(fitted_rates)
           THEN rmse.raised # "none" /\ rmse.value = <<>>
           ELSE /\ rmse.raised = "none"
                /\ rmse.value # NaN
                /\ rmse.value.root_of[1] >= 0
                /\ rmse.value.root_of[2] > 0
                /\ actual_rates = fitted_rates => rmse.value = Zero

\* Two identical series of two rates give 0.
C21_Witness ==
    /\ pc = "returned"
    /\ Len(actual_rates) = 2
    /\ actual_rates = fitted_rates
    /\ actual_rates[1] # actual_rates[2]
    /\ rmse = [raised |-> "none", value |-> Zero]

----------------------------------------------------------------------------
(* The DataService operations at the level of list objects: what a call    *)
(* leaves in each list it was passed, and whether the list it returns is   *)
(* one of them.                                                            *)

\* The filter that hands back its argument when there is nothing to filter by.
FilterCallReturningArgument(d, crit) ==
    IF crit = <<>>
    THEN [data |-> d, result |-> d, result_is_input |-> TRUE]
    ELSE [data |-> d, result |-> filter_production(d, crit), result_is_input |-> FALSE]

\* filter_production: list(data) copies the argument, and each criterion
\* builds a new list from the previous one.
FilterCall(d, crit) ==
    [data |-> d, result |-> filter_production(d, crit), result_is_input |-> FALSE]

\* aggregate_production: the frame is built from the model_dump() dicts.
AggregateCall(d, fields, aggs) ==
    { [data |-> d, result |-> r, result_is_input |-> FALSE] :
        r \in aggregate_production(d, fields, aggs) }

\* join_data: the three frames are built from the model_dump() dicts.
JoinCall(d, prices, rates) ==
    [data |-> d, price_data |-> prices, exchange_data |-> rates,
     result |-> join_data(d, prices, rates), result_is_input |-> FALSE]

InitObjects ==
    /\ pc = "call"
    /\ OuterIdle({"objects"})
    /\ DcaIdle
    /\ UseCaseIdle
    /\ EngineIdle
    /\ operation \in {"filter", "aggregate", "join"}
    /\ \/ /\ operation = "filter"
          /\ data \in SeqsUpTo(ProductionPool, MaxData)
          /\ criteria \in OneEntryDicts(CriteriaPool)
          /\ group_by_fields = <<>>
          /\ aggregation_functions = <<>>
          /\ price_data = <<>>
          /\ exchange_data = <<>>
       \/ /\ operation = "aggregate"
          /\ data \in SeqsUpTo(AggregatePool, MaxData)
          /\ criteria = <<>>
          /\ group_by_fields \in GroupByPool
          /\ aggregation_functions \in OneEntryDicts(AggregationPool)
          /\ price_data = <<>>
          /\ exchange_data = <<>>
       \/ /\ operation = "join"
          /\ data \in SeqsUpTo(JoinProductionPool, MaxFetched)
          /\ criteria = <<>>
          /\ group_by_fields = <<>>
          /\ aggregation_functions = <<>>
          /\ price_data \in SeqsUpTo(PricePool, MaxFetched)
          /\ exchange_data \in SeqsUpTo(RatePool, MaxFetched)
    /\ inputs_before = [data |-> data, price_data |-> price_data,
                        exchange_data |-> exchange_data]
    /\ result_is_input = FALSE
    /\ filtered_data = <<>>
    /\ aggregated = <<>>
    /\ joined = <<>>

objectsUnchanged == <<operation, inputs_before, criteria, group_by_fields,
                      aggregation_functions, dcaVars, useCaseVars, engineVars>>

FilterObjects ==
    /\ pc = "call"
    /\ operation = "filter"
    /\ LET r == FilterCall(data, criteria)
       IN /\ data' = r.data
          /\ filtered_data' = r.result
          /\ result_is_input' = r.result_is_input
    /\ pc' = "returned"
    /\ UNCHANGED <<price_data, exchange_data, aggregated, joined>>
    /\ UNCHANGED objectsUnchanged
    /\ OuterUnchanged({"objects"})

AggregateObjects ==
    /\ pc = "call"
    /\ operation = "aggregate"
    /\ \E r \in AggregateCall(data, group_by_fields, aggregation_functions) :
          /\ data' = r.data
          /\ aggregated' = r.result
          /\ result_is_input' = r.result_is_input
    /\ pc' = "returned"
    /\ UNCHANGED <<price_data, exchange_data, filtered_data, joined>>
    /\ UNCHANGED objectsUnchanged
    /\ OuterUnchanged({"objects"})

JoinObjects ==
    /\ pc = "call"
    /\ operation = "join"
    /\ LET r == JoinCall(data, price_data, exchange_data)
       IN /\ data' = r.data
          /\ price_data' = r.price_data
          /\ exchange_data' = r.exchange_data
          /\ joined' = r.result
          /\ result_is_input' = r.result_is_input
    /\ pc' = "returned"
    /\ UNCHANGED <<filtered_data, aggregated>>
    /\ UNCHANGED objectsUnchanged
    /\ OuterUnchanged({"objects"})

NextObjects == FilterObjects \/ AggregateObjects \/ JoinObjects

SpecObjects == InitObjects /\ [][NextObjects]_vars

----------------------------------------------------------------------------
(* CreateWellUseCase over a well repository.                               *)
(* The repository keeps the rows of the wells table, whose primary key is  *)
(* well_code; its add returns an entity, the one it was passed or the one  *)
(* it is configured to return.                                             *)

WellFields == {"well_code", "well_name", "field_name", "field_code"}

Well(code, name, fname, fcode) ==
    [well_code |-> code, well_name |-> name, field_name |-> fname, field_code |-> fcode]

\* WellDuckDBRepository.get_by_well_code: the first row of that code, <<>> for None.
get_by_well_code(store, code) ==
    IF \E i \in 1..Len(store) : store[i].well_code = code
    THEN store[CHOOSE i \in 1..Len(store) :
                   /\ store[i].well_code = code
                   /\ \A j \in 1..(i - 1) : store[j].well_code # code]
    ELSE <<>>

\* DuckDBGenericRepository.add: INSERT into the table; the primary key
\* rejects a second row of the same well_code.
add(store, entity, returned_entity) ==
    IF \E i \in 1..Len(store) : store[i].well_code = entity.well_code
    THEN [store |-> store, created |-> <<>>, raised |-> "DatabaseError"]
    ELSE [store |-> Append(store, entity), created |-> returned_entity, raised |-> "none"]

\* The entity built from the key alone.
EntityFromRequestCodeOnly(dto) ==
    [f \in WellFields |-> IF f = "well_code" THEN dto[f] ELSE ""]

\* self.entity_type(**well_request_dto.model_dump())
EntityFromRequest(dto) == [f \in WellFields |-> dto[f]]

\* WellResponse.from_entity
from_entity(entity) == [f \in WellFields |-> entity[f]]

\* The execute that adds without looking for an existing well.
CreateWellExecuteUnchecked(store, dto, configured) ==
    LET well_to_create == EntityFromRequest(dto)
        added == add(store, well_to_create,
                     IF configured = <<>> THEN well_to_create ELSE configured)
    IN [request |-> dto, store_before |-> store,
        found |-> get_by_well_code(store, dto.well_code) # <<>>,
        adds |-> <<well_to_create>>, created |-> added.created,
        response |-> IF added.raised = "none" THEN from_entity(added.created) ELSE <<>>,
        raised |-> added.raised,
        status_code |-> IF added.raised = "none" THEN 0 ELSE 500,
        store |-> added.store]

\* CreateWellUseCase.execute: the call record and the store it leaves.
\* configured is the entity the repository's add is set to return, <<>> when
\* add returns the entity it was passed.
CreateWellExecute(store, dto, configured) ==
    LET existing_well == get_by_well_code(store, dto.well_code)
    IN IF existing_well # <<>>
       THEN [request |-> dto, store_before |-> store, found |-> TRUE, adds |-> <<>>,
             created |-> <<>>, response |-> <<>>, raised |-> "AppException",
             status_code |-> 409, store |-> store]
       ELSE LET well_to_create == EntityFromRequest(dto)
                added == add(store, well_to_create,
                             IF configured = <<>> THEN well_to_create ELSE configured)
            IN [request |-> dto, store_before |-> store, found |-> FALSE,
                adds |-> <<well_to_create>>, created |-> added.created,
                response |-> IF added.raised = "none" THEN from_entity(added.created)
                             ELSE <<>>,
                raised |-> added.raised,
                status_code |-> IF added.raised = "none" THEN 0 ELSE 500,
                store |-> added.store]

WellRequestPool ==
    { Well(code, name, "Mock Field", "MF01") :
        code \in {"W001", "W002"}, name \in {"Mock Test Well", "Well B"} }

\* What a repository's add can be set to return: nothing, or a fixed entity.
ConfiguredReturns == { <<>>, Well("W002", "Mock Test Well", "Mock Field", "MF01") }

InitWells ==
    /\ pc = "call"
    /\ CoreIdle
    /\ OuterIdle({"wells"})
    /\ well_store \in { <<>>, <<Well("W001", "Test Well Alpha", "Test Field", "F01")>> }
    /\ well_call = NoWellCall
    /\ well_calls_made = 0

CreateWell ==
    /\ pc = "call"
    /\ well_calls_made < MaxWellCalls
    /\ \E dto \in WellRequestPool, configured \in ConfiguredReturns :
          LET r == CreateWellExecute(well_store, dto, configured)
          IN /\ well_store' = r.store
             /\ well_call' = [f \in DOMAIN NoWellCall |-> r[f]]
    /\ well_calls_made' = well_calls_made + 1
    /\ UNCHANGED <<pc, coreVars>>
    /\ OuterUnchanged({"wells"})

NextWells == CreateWell

SpecWells == InitWells /\ [][NextWells]_vars

C28_ConflictLeavesRepository ==
    /\ (well_calls_made > 0 /\ well_call.found)
          => /\ well_call.raised = "AppException"
             /\ well_call.status_code = 409
             /\ well_call.adds = <<>>
             /\ well_store = well_call.store_before
    /\ \A i, j \in 1..Len(well_store) :
          well_store[i].well_code = well_store[j].well_code => i = j

\* A second request for a code added by an earlier call of the run.
C28_Witness ==
    /\ well_calls_made > 1
    /\ well_call.found
    /\ well_call.raised = "AppException"
    /\ Len(well_store) = 2
    /\ well_call.request.well_code = "W002"

----------------------------------------------------------------------------
(* ExternalApiAdapter.fetch_data.                                          *)
(* The HTTP exchange is a collaborator: requests.get raises or returns a   *)
(* response with a status and a body, and the body decodes to a JSON value *)
(* or does not decode.                                                     *)

AsciiUpper == <<"A", "B", "C", "D", "E", "F", "G", "H", "I", "J", "K", "L", "M",
                "N", "O", "P", "Q", "R", "S", "T", "U", "V", "W", "X", "Y", "Z">>
AsciiLower == <<"a", "b", "c", "d", "e", "f", "g", "h", "i", "j", "k", "l", "m",
                "n", "o", "p", "q", "r", "s", "t", "u", "v", "w", "x", "y", "z">>

\* str.upper()
Upper(chars) ==
    [i \in 1..Len(chars) |->
        IF \E k \in 1..Len(AsciiLower) : AsciiLower[k] = chars[i]
        THEN AsciiUpper[CHOOSE k \in 1..Len(AsciiLower) : AsciiLower[k] = chars[i]]
        ELSE chars[i]]

\* sub in chars
Contains(chars, sub) ==
    \E i \in 0..(Len(chars) - Len(sub)) :
        \A k \in 1..Len(sub) : chars[i + k] = sub[k]

Placeholder == <<"Y", "O", "U", "R", "_">>

\* not value, for a value that is None or a str
Falsy(value) == value = None \/ (value.t = "str" /\ value.s = <<>>)

\* The credential test that looks at the username only.
CredentialsRejectedUsernameOnly(username, password) ==
    \/ Falsy(username)
    \/ Contains(Upper(username.s), Placeholder)

\* not username or not password or "YOUR_" in username.upper()
\* or "YOUR_" in password.upper()
CredentialsRejected(username, password) ==
    \/ Falsy(username)
    \/ Falsy(password)
    \/ Contains(Upper(username.s), Placeholder)
    \/ Contains(Upper(password.s), Placeholder)

\* not url or ("YOUR_" in url.upper() and source_name != "odata_production_data")
UrlRejected(url, source_name) ==
    \/ Falsy(url)
    \/ (Contains(Upper(url.s), Placeholder) /\ source_name # "odata_production_data")

\* The classes of requests.exceptions each exception is an instance of.
RequestsBases ==
    [HTTPError |-> {"HTTPError", "RequestException"},
     ReadTimeout |-> {"ReadTimeout", "Timeout", "RequestException"},
     ConnectTimeout |-> {"ConnectTimeout", "ConnectionError", "Timeout", "RequestException"},
     ConnectionError |-> {"ConnectionError", "RequestException"},
     SSLError |-> {"SSLError", "ConnectionError", "RequestException"},
     JSONDecodeError |-> {"JSONDecodeError", "InvalidJSONError", "RequestException"},
     TooManyRedirects |-> {"TooManyRedirects", "RequestException"}]

\* The default status_code of ExternalApiError.
DefaultApiStatus == 503

\* The handlers with the most general class first: every failure gets the
\* default status.
ExceptHandlersGeneralFirst ==
    << [class |-> "RequestException", status_code |-> DefaultApiStatus],
       [class |-> "HTTPError", status_code |-> 0],
       [class |-> "Timeout", status_code |-> 504],
       [class |-> "ConnectionError", status_code |-> 503],
       [class |-> "JSONDecodeError", status_code |-> 502] >>

\* The except clauses of fetch_data in source order, with the status_code
\* each gives the ExternalApiError; 0 stands for the response's own status.
ExceptHandlers ==
    << [class |-> "HTTPError", status_code |-> 0],
       [class |-> "Timeout", status_code |-> 504],
       [class |-> "ConnectionError", status_code |-> 503],
       [class |-> "JSONDecodeError", status_code |-> 502],
       [class |-> "RequestException", status_code |-> DefaultApiStatus] >>

\* The first except clause that matches the exception.
HandlerFor(exception) ==
    LET matching == { i \in 1..Len(ExceptHandlers) :
                        ExceptHandlers[i].class \in RequestsBases[exception] }
    IN ExceptHandlers[CHOOSE i \in matching : \A j \in matching : i <= j]

\* raise ExternalApiError(...) from the exception caught
Wrapped(exception, response_status) ==
    LET handler == HandlerFor(exception)
    IN [raised |-> "ExternalApiError",
        status_code |-> IF handler.status_code = 0 THEN response_status
                        ELSE handler.status_code,
        value |-> <<>>]

ListKeys == <<"data", "results", "items", "records">>

\* A decoded JSON value: a list, a dict as its key-value pairs, or a string.
JsonList(items) == [kind |-> "list", items |-> items, entries |-> <<>>]
JsonDict(entries) == [kind |-> "dict", items |-> <<>>, entries |-> entries]
JsonStr == [kind |-> "str", items |-> <<>>, entries |-> <<>>]

\* A body response.json() cannot decode.
Undecodable == [kind |-> "undecodable", items |-> <<>>, entries |-> <<>>]

\* key in json_response
HasKey(json, key) == \E i \in 1..Len(json.entries) : json.entries[i][1] = key

\* json_response[key]
Item(json, key) ==
    json.entries[CHOOSE i \in 1..Len(json.entries) : json.entries[i][1] = key][2]

\* Lines 109-119: the list the decoded body gives, or ExternalApiError.
ListFromJson(json_response) ==
    IF json_response.kind = "list"
    THEN [raised |-> "none", status_code |-> 0, value |-> json_response]
    ELSE IF json_response.kind = "dict"
    THEN LET usable == { i \in 1..Len(ListKeys) :
                           /\ HasKey(json_response, ListKeys[i])
                           /\ Item(json_response, ListKeys[i]).kind = "list" }
         IN IF usable # {}
            THEN [raised |-> "none", status_code |-> 0,
                  value |-> Item(json_response,
                                 ListKeys[CHOOSE i \in usable : \A j \in usable : i <= j])]
            ELSE [raised |-> "ExternalApiError", status_code |-> DefaultApiStatus,
                  value |-> <<>>]
    ELSE [raised |-> "ExternalApiError", status_code |-> DefaultApiStatus, value |-> <<>>]

\* Lines 104-140: the exchange and what fetch_data makes of it.
Exchange(http) ==
    IF http.get # "response" THEN Wrapped(http.get, 0)
    ELSE IF http.status >= 400 /\ http.status < 600 THEN Wrapped("HTTPError", http.status)
    ELSE IF http.body = Undecodable THEN Wrapped("JSONDecodeError", http.status)
    ELSE ListFromJson(http.body)

ApiSources == {"oil_price", "exchange_rate", "production_data", "odata_production_data"}

\* self._api_configs[source_name], over the values the configuration module gives.
ApiConfig(source_name, url, key, username, password) ==
    IF source_name = "odata_production_data"
    THEN [url |-> url, username |-> username, password |-> password,
          auth_type |-> Str(<<"basic">>), key |-> None, key_header_template |-> None]
    ELSE [url |-> url, username |-> None, password |-> None, auth_type |-> None,
          key |-> IF source_name = "exchange_rate" THEN None ELSE key,
          key_header_template |->
              IF source_name = "oil_price" THEN Str(<<"Bearer {}">>)
              ELSE IF source_name = "production_data" THEN Str(<<"X-API-Key {}">>)
              ELSE None]

\* Lines 82-101: the names of the headers sent.
HeaderNames(config) ==
    IF config.auth_type # Str(<<"basic">>) /\ ~Falsy(config.key)
          /\ ~Contains(Upper(config.key.s), Placeholder)
    THEN IF config.key_header_template = Str(<<"X-API-Key {}">>)
         THEN {"Accept", "X-API-Key"}
         ELSE {"Accept", "Authorization"}
    ELSE {"Accept"}

\* ExternalApiAdapter.fetch_data: the result and the requests sent.
fetch_data(source_name, config, http) ==
    IF source_name \notin ApiSources
    THEN [result |-> [raised |-> "builtins.ValueError", status_code |-> 0, value |-> <<>>],
          requests |-> <<>>]
    ELSE IF UrlRejected(config.url, source_name)
    THEN [result |-> [raised |-> "ExternalApiError", status_code |-> DefaultApiStatus,
                      value |-> <<>>],
          requests |-> <<>>]
    ELSE IF config.auth_type = Str(<<"basic">>)
              /\ CredentialsRejected(config.username, config.password)
    THEN [result |-> [raised |-> "ExternalApiError", status_code |-> DefaultApiStatus,
                      value |-> <<>>],
          requests |-> <<>>]
    ELSE [result |-> Exchange(http),
          requests |-> << [url |-> config.url,
                           headers |-> HeaderNames(config),
                           auth |-> IF config.auth_type = Str(<<"basic">>)
                                    THEN <<config.username, config.password>>
                                    ELSE <<>>] >>]

YourValue == <<"Y", "O", "U", "R", "_", "X">>
LowerYourValue == <<"y", "o", "u", "r", "_", "x">>
GoodValue == <<"o", "k">>

UrlPool == { None, Str(YourValue), Str(GoodValue) }
CredentialPool == { None, Str(<<>>), Str(YourValue), Str(LowerYourValue), Str(GoodValue) }
KeyPool == { None, Str(YourValue), Str(GoodValue) }

BodyPool ==
    { Undecodable, JsonStr, JsonList(<<1>>),
      JsonDict(<< <<"data", JsonList(<<1>>)>> >>),
      JsonDict(<< <<"results", JsonList(<<2>>)>>, <<"data", JsonStr>> >>),
      JsonDict(<< <<"records", JsonList(<<4>>)>>, <<"items", JsonList(<<3>>)>> >>),
      JsonDict(<< <<"data", JsonStr>> >>),
      JsonDict(<< <<"value", JsonList(<<1>>)>> >>) }

TransportPool ==
    { [get |-> x, status |-> 0, body |-> Undecodable] :
        x \in {"ReadTimeout", "ConnectTimeout", "ConnectionError", "SSLError",
               "TooManyRedirects"} }
    \cup { [get |-> "response", status |-> 200, body |-> b] : b \in BodyPool }
    \cup { [get |-> "response", status |-> st, body |-> b] :
             st \in {404, 500}, b \in {Undecodable, JsonList(<<1>>)} }

InitApi ==
    /\ pc = "call"
    /\ CoreIdle
    /\ OuterIdle({"api"})
    /\ api_source \in ApiSources \cup {"non_existent_source"}
    /\ \E url \in UrlPool, key \in KeyPool, username, password \in CredentialPool :
          /\ api_source # "odata_production_data"
                => username = None /\ password = None
          /\ api_source \in {"odata_production_data", "exchange_rate", "non_existent_source"}
                => key = None
          /\ api_config = ApiConfig(api_source, url, key, username, password)
    /\ transport \in TransportPool
    /\ api_result = NoApiResult
    /\ http_requests = <<>>

FetchData ==
    /\ pc = "call"
    /\ LET r == fetch_data(api_source, api_config, transport)
       IN /\ api_result' = r.result
          /\ http_requests' = r.requests
    /\ pc' = "returned"
    /\ UNCHANGED <<api_source, api_config, transport, coreVars>>
    /\ OuterUnchanged({"api"})

NextApi == FetchData

SpecApi == InitApi /\ [][NextApi]_vars

\* A credential that is missing or None, empty, or a placeholder holding YOUR_.
Unconfigured(credential) ==
    \/ credential = None
    \/ credential = Str(<<>>)
    \/ Contains(credential.s, Placeholder)

\* C24: for a basic-auth source whose username or password is missing, None
\* or a YOUR_ placeholder, fetch_data raises ExternalApiError and sends no
\* HTTP request.
C24_NoRequestWithoutCredentials ==
    (pc = "returned" /\ api_source \in ApiSources /\ api_config.auth_type = Str(<<"basic">>)
        /\ (Unconfigured(api_config.username) \/ Unconfigured(api_config.password)))
        => /\ api_result.raised = "ExternalApiError"
           /\ http_requests = <<>>

\* A usable URL and username with a None password, over a transport that
\* would have answered.
C24_Witness ==
    /\ pc = "returned"
    /\ api_source = "odata_production_data"
    /\ api_config.url = Str(GoodValue)
    /\ api_config.username = Str(GoodValue)
    /\ api_config.password = None
    /\ transport.get = "response"
    /\ transport.status = 200
    /\ api_result.raised = "ExternalApiError"
    /\ http_requests = <<>>

\* The first of the keys data, results, items, records that holds a list.
FirstListKey(body, key) ==
    /\ HasKey(body, key)
    /\ Item(body, key).kind = "list"
    /\ \A i, j \in 1..Len(ListKeys) :
          (ListKeys[j] = key /\ i < j)
              => (~HasKey(body, ListKeys[i]) \/ Item(body, ListKeys[i]).kind # "list")

\* C25: once the request is sent, fetch_data returns a list or raises
\* ExternalApiError: with the response's status for an HTTP error status,
\* 504 for a timeout, 503 for a connection error, 502 for a body that does
\* not decode; a decoded body gives itself when it is a list, the list under
\* the first of data, results, items, records when it is a dict holding one,
\* and ExternalApiError otherwise.
C25_TransportFailuresWrapped ==
    (pc = "returned" /\ http_requests # <<>>)
        => /\ api_result.raised \in {"none", "ExternalApiError"}
           /\ (transport.get = "response" /\ transport.status >= 400)
                 => /\ api_result.raised = "ExternalApiError"
                    /\ api_result.status_code = transport.status
           /\ transport.get \in {"ReadTimeout", "ConnectTimeout"}
                 => api_result.raised = "ExternalApiError" /\ api_result.status_code = 504
           /\ transport.get \in {"ConnectionError", "SSLError"}
                 => api_result.raised = "ExternalApiError" /\ api_result.status_code = 503
           /\ (transport.get = "response" /\ transport.status = 200)
                 => IF transport.body = Undecodable
                    THEN /\ api_result.raised = "ExternalApiError"
                         /\ api_result.status_code = 502
                    ELSE IF transport.body.kind = "list"
                    THEN api_result.raised = "none" /\ api_result.value = transport.body
                    ELSE IF transport.body.kind = "dict"
                            /\ \E i \in 1..Len(ListKeys) :
                                  FirstListKey(transport.body, ListKeys[i])
                    THEN /\ api_result.raised = "none"
                         /\ \E i \in 1..Len(ListKeys) :
                               /\ FirstListKey(transport.body, ListKeys[i])
                               /\ api_result.value = Item(transport.body, ListKeys[i])
                    ELSE api_result.raised = "ExternalApiError"
           /\ api_result.raised = "none" => api_result.value.kind = "list"

\* A connect timeout, which is a connection error and a timeout at once, is
\* reported as 504.
C25_Witness ==
    /\ pc = "returned"
    /\ Len(http_requests) = 1
    /\ transport.get = "ConnectTimeout"
    /\ api_result = [raised |-> "ExternalApiError", status_code |-> 504, value |-> <<>>]

----------------------------------------------------------------------------
(* DuckDBGenericRepository on the production table: the calls by composite *)
(* key. The table holds Production rows, one at most per value of its      *)
(* primary key (well_code, reference_date); the connection executes every  *)
(* statement it is given. A key_values dict is the sequence of its         *)
(* <<column, value>> entries.                                              *)

\* Line 28-34: PRIMARY_KEY_COLUMNS["Production"].
pk_info == <<"well_code", "reference_date">>

SeqRange(seq) == { seq[i] : i \in 1..Len(seq) }

\* Lines 161, 200: the keys are accepted when each of them is a key column.
KeysAccepted(key_values) ==
    \A i \in 1..Len(key_values) : key_values[i][1] \in SeqRange(pk_info)

\* Lines 47-52 and the WHERE clause they build: with no condition there is no
\* clause and every row is selected; otherwise the rows equal to each value.
build_where_clause(row, conditions) ==
    \A i \in 1..Len(conditions) : row[conditions[i][1]] = conditions[i][2]

\* Lines 199-213: DELETE FROM production {where_clause}.
delete_by_composite_key(rows, key_values) ==
    IF ~KeysAccepted(key_values)
    THEN [raised |-> "ValueError", rows |-> rows]
    ELSE [raised |-> "none",
          rows |-> { row \in rows : ~build_where_clause(row, key_values) }]

\* Lines 165-166: the columns of the SET clause, those outside the key.
SetColumns == ModelFields \ SeqRange(pk_info)

\* Lines 160-181: UPDATE production SET ... {where_clause}.
update_by_composite_key(rows, entity, key_values) ==
    IF ~KeysAccepted(key_values)
    THEN [raised |-> "ValueError", rows |-> rows]
    ELSE [raised |-> "none",
          rows |-> { IF build_where_clause(row, key_values)
                     THEN [f \in ModelFields |->
                              IF f \in SetColumns THEN entity[f] ELSE row[f]]
                     ELSE row : row \in rows }]

RowPool ==
    { Production(d, Num(oil), Num(5), Num(0), w) :
        d \in {D1, D2}, oil \in {10, 20}, w \in {W1, W2} }

\* The primary-key constraint of the table (lines 378-381).
PrimaryKeyHolds(rows) ==
    \A r1, r2 \in rows :
        (\A i \in 1..Len(pk_info) : r1[pk_info[i]] = r2[pk_info[i]]) => r1 = r2

KeyValuesPool ==
    { <<>>,
      << <<"well_code", W1>> >>,
      << <<"reference_date", D1>> >>,
      << <<"well_code", W1>>, <<"reference_date", D1>> >>,
      << <<"reference_date", D2>>, <<"well_code", W2>> >>,
      << <<"oil_prod", Num(10)>> >>,
      << <<"well_code", W1>>, <<"oil_prod", Num(10)>> >> }

InitTable ==
    /\ pc = "call"
    /\ CoreIdle
    /\ OuterIdle({"table"})
    /\ production_table \in { rows \in SUBSET RowPool : PrimaryKeyHolds(rows) }
    /\ table_before = production_table
    /\ repo_call = NoRepoCall
    /\ repo_calls_made = 0

DeleteByCompositeKey ==
    /\ pc = "call"
    /\ repo_calls_made < MaxRepoCalls
    /\ \E key_values \in KeyValuesPool :
          LET r == delete_by_composite_key(production_table, key_values)
          IN /\ production_table' = r.rows
             /\ repo_call' = [op |-> "delete_by_composite_key", key_values |-> key_values,
                              entity |-> <<>>, raised |-> r.raised]
    /\ table_before' = production_table
    /\ repo_calls_made' = repo_calls_made + 1
    /\ UNCHANGED <<pc, coreVars>>
    /\ OuterUnchanged({"table"})

UpdateByCompositeKey ==
    /\ pc = "call"
    /\ repo_calls_made < MaxRepoCalls
    /\ \E key_values \in KeyValuesPool, entity \in RowPool :
          LET r == update_by_composite_key(production_table, entity, key_values)
          IN /\ production_table' = r.rows
             /\ repo_call' = [op |-> "update_by_composite_key", key_values |-> key_values,
                              entity |-> <<entity>>, raised |-> r.raised]
    /\ table_before' = production_table
    /\ repo_calls_made' = repo_calls_made + 1
    /\ UNCHANGED <<pc, coreVars>>
    /\ OuterUnchanged({"table"})

NextTable == DeleteByCompositeKey \/ UpdateByCompositeKey

SpecTable == InitTable /\ [][NextTable]_vars

\* C29: a call of delete_by_composite_key or update_by_composite_key that
\* accepts its key_values, whether they name both key columns, one or none,
\* changes at most one stored row; every other row is left as it was.
C29_AtMostOneRowChanged ==
    (repo_calls_made > 0 /\ repo_call.raised = "none")
        => /\ Cardinality(table_before \ production_table) <= 1
           /\ Cardinality(production_table \ table_before) <= 1

----------------------------------------------------------------------------
(* DuckDBAdapter: the connection and the repositories it hands out.        *)
(* Connections are numbered in the order duckdb.connect makes them; an     *)
(* adapter is the record of the connections made (closed or not), of       *)
(* self._connection and of the connection each self.*_repository holds,    *)
(* with 0 for None.                                                        *)

Adapter(made, current, repos) ==
    [connections |-> made, connection |-> current, repositories |-> repos]

\* Line 333: self._connection is None or self._connection.closed.
NoOpenConnection(adapter) ==
    adapter.connection = 0 \/ adapter.connections[adapter.connection]

\* Lines 332-341: _get_connection.
get_connection(adapter) ==
    IF NoOpenConnection(adapter)
    THEN [adapter EXCEPT !.connections = Append(@, FALSE),
                         !.connection = Len(adapter.connections) + 1]
    ELSE adapter

\* Lines 343-348: _close_connection.
close_connection(adapter) ==
    [adapter EXCEPT !.connections =
                        IF NoOpenConnection(adapter) THEN @
                        ELSE [@ EXCEPT ![adapter.connection] = TRUE],
                    !.connection = 0]

\* Lines 399-416: initialize_database; the tables are created over the
\* connection and every repository is built anew on it.
initialize_database(adapter) ==
    LET connected == get_connection(adapter)
    IN [connected EXCEPT !.repositories =
                             [name \in RepositoryNames |-> connected.connection]]

\* Lines 418-432: get_<name>_repository, the adapter as the call leaves it.
get_repository(adapter, name) ==
    IF adapter.repositories[name] = 0 THEN initialize_database(adapter)
    ELSE adapter

\* Lines 434-438: __enter__.
enter(adapter) == initialize_database(get_connection(adapter))

\* Lines 440-442: __exit__.
exit(adapter) == close_connection(adapter)

ThisAdapter == Adapter(connections, adapter_connection, repositories)

\* The adapter becomes next, within the bound on the connections of a run.
Becomes(next) ==
    /\ Len(next.connections) <= MaxConnections
    /\ connections' = next.connections
    /\ adapter_connection' = next.connection
    /\ repositories' = next.repositories

InitAdapter ==
    /\ pc = "call"
    /\ CoreIdle
    /\ OuterIdle({"adapter"})
    /\ AdapterIdle

GetConnection ==
    /\ pc = "call"
    /\ Becomes(get_connection(ThisAdapter))
    /\ adapter_call' = [op |-> "_get_connection", name |-> "none",
                        connection |-> adapter_connection']
    /\ UNCHANGED <<pc, coreVars>>
    /\ OuterUnchanged({"adapter"})

CloseConnection ==
    /\ pc = "call"
    /\ Becomes(close_connection(ThisAdapter))
    /\ adapter_call' = [op |-> "_close_connection", name |-> "none", connection |-> 0]
    /\ UNCHANGED <<pc, coreVars>>
    /\ OuterUnchanged({"adapter"})

InitializeDatabase ==
    /\ pc = "call"
    /\ Becomes(initialize_database(ThisAdapter))
    /\ adapter_call' = [op |-> "initialize_database", name |-> "none", connection |-> 0]
    /\ UNCHANGED <<pc, coreVars>>
    /\ OuterUnchanged({"adapter"})

GetRepository ==
    /\ pc = "call"
    /\ \E name \in RepositoryNames :
          /\ Becomes(get_repository(ThisAdapter, name))
          /\ adapter_call' = [op |-> "get_repository", name |-> name,
                              connection |-> repositories'[name]]
    /\ UNCHANGED <<pc, coreVars>>
    /\ OuterUnchanged({"adapter"})

Enter ==
    /\ pc = "call"
    /\ Becomes(enter(ThisAdapter))
    /\ adapter_call' = [op |-> "__enter__", name |-> "none", connection |-> 0]
    /\ UNCHANGED <<pc, coreVars>>
    /\ OuterUnchanged({"adapter"})

Exit ==
    /\ pc = "call"
    /\ Becomes(exit(ThisAdapter))
    /\ adapter_call' = [op |-> "__exit__", name |-> "none", connection |-> 0]
    /\ UNCHANGED <<pc, coreVars>>
    /\ OuterUnchanged({"adapter"})

NextAdapter ==
    \/ GetConnection
    \/ CloseConnection
    \/ InitializeDatabase
    \/ GetRepository
    \/ Enter
    \/ Exit

SpecAdapter == InitAdapter /\ [][NextAdapter]_vars

\* C30: after any sequence of adapter operations, the repository a
\* get_*_repository call returns is bound to the adapter's current
\* connection, which is open; it is never bound to a closed connection.
C30_RepositoryOnOpenConnection ==
    adapter_call.op = "get_repository"
        => /\ adapter_call.connection # 0
           /\ ~connections[adapter_call.connection]
           /\ adapter_call.connection = adapter_connection

====
